---- MODULE Spec2Model ----
(***************************************************************************)
(* Paper-corpus pipeline of biecho/model-stealing-papers.                  *)
(*                                                                         *)
(*   scripts/pipeline/state.py    PaperState: the store and its status     *)
(*                                machine                                  *)
(*   scripts/pipeline/init.py     seed stage                               *)
(*   scripts/pipeline/fetch.py    metadata stage                           *)
(*   scripts/pipeline/classify.py classification stage                     *)
(*   scripts/pipeline/expand.py   citation-graph crawl                     *)
(*   scripts/pipeline/discover.py discovery sweep                          *)
(*   fetch_papers.py, scripts/fetch_all.py   keyword search call sites     *)
(*                                                                         *)
(* A Python dict keeps insertion order, and the stages process records in  *)
(* that order, so the store is a sequence of records with unique paper_id. *)
(* A record is a function from field names to values (a Python dict):      *)
(* dict.update may add keys.  None is the string "None" for string-valued  *)
(* fields and NullInt for integer-valued ones.                             *)
(***************************************************************************)
EXTENDS Integers, Sequences, FiniteSets, TLC

VARIABLES
    papers,     \* PaperState.papers of the running process (insertion-ordered)
    file,       \* the store file: whether it exists, and the papers last written to it
    now,        \* the clock read by datetime.now()
    ret,        \* what the last add_paper call returned ("None" before any)
    stage,      \* the running stage process: "idle" when none runs
    args,       \* what the running stage keeps of its arguments and environment
    queue,      \* the list the running stage iterates over (paper ids)
    idx,        \* enumerate() index i of the next element of queue
    log,        \* the last call or step and what it was given
    kw,         \* the keyword-search scripts' state (fetch_papers.py, fetch_all.py)
    out,        \* the output file of fetch_papers.py (papers.json)
    run         \* run.py: the steps it still has to run, the current one first

vars == <<papers, file, now, ret, stage, args, queue, idx, log, kw, out, run>>

----------------------------------------------------------------------------
(* Values *)

None == "None"
NullInt == 0 - 1
NoFile == [exists |-> FALSE, valid |-> TRUE, papers |-> <<>>]
\* PaperState.save, completed: the file holds the papers (the metadata is
\* derived from them)
save(ps) == [exists |-> TRUE, valid |-> TRUE, papers |-> ps]
\* PaperState.save, interrupted: open(state_file, "w") has truncated the file
\* and json.dump has not finished writing it
Truncated == [exists |-> TRUE, valid |-> FALSE, papers |-> <<>>]
\* None where a paper id is expected (ids are tuples)
NoneId == <<>>

\* min
Min(a, b) == IF a < b THEN a ELSE b

\* Python truthiness of an optional string: None and "" are falsy.
Truthy(x) == x # None /\ x # ""

\* A paper id is <<prefix, key>>; str.startswith("seed_") reads the prefix.
SeedPrefix == "seed_"
StartsWithSeed_never(id) == FALSE
StartsWithSeed(id) == id[1] = SeedPrefix

Statuses == {"pending", "fetched", "classified", "expanded", "discarded"}
Categories == {"ML01", "NONE"}

----------------------------------------------------------------------------
(* PaperState (state.py) *)

HasPaper(ps, id) == \E k \in 1..Len(ps) : ps[k].paper_id = id

GetPaper(ps, id) == ps[CHOOSE k \in 1..Len(ps) : ps[k].paper_id = id]

Ids(ps) == {ps[k].paper_id : k \in 1..Len(ps)}

\* dict.get(key) with default
Get(r, key, default) == IF key \in DOMAIN r THEN r[key] ELSE default

\* dict.update(kwargs)
DictUpdate(r, kwargs) ==
    [f \in DOMAIN r \cup DOMAIN kwargs |->
        IF f \in DOMAIN kwargs THEN kwargs[f] ELSE r[f]]

\* update_paper that creates the record it does not find
update_paper_upsert(ps, id, kwargs) ==
    IF \E k \in 1..Len(ps) : ps[k].paper_id = id
    THEN [k \in 1..Len(ps) |->
            IF ps[k].paper_id = id THEN DictUpdate(ps[k], kwargs) ELSE ps[k]]
    ELSE Append(ps, DictUpdate([paper_id |-> id], kwargs))

\* self.papers[paper_id].update(kwargs), guarded by "if paper_id in self.papers"
update_paper(ps, id, kwargs) ==
    [k \in 1..Len(ps) |->
        IF ps[k].paper_id = id THEN DictUpdate(ps[k], kwargs) ELSE ps[k]]

\* the record of add_paper, fetched whenever the abstract is not None
NewRecord_not_none(id, title, source, source_paper_id, abstract, year, url, depth, t) ==
    [paper_id |-> id,
     title |-> title,
     abstract |-> abstract,
     year |-> year,
     url |-> url,
     source |-> source,
     source_paper_id |-> source_paper_id,
     depth |-> depth,
     status |-> IF abstract # None THEN "fetched" ELSE "pending",
     classification |-> None,
     classification_confidence |-> None,
     added_at |-> t,
     fetched_at |-> IF abstract # None THEN t ELSE NullInt,
     classified_at |-> NullInt,
     expanded_at |-> NullInt,
     citations_checked_at |-> NullInt]

NewRecord(id, title, source, source_paper_id, abstract, year, url, depth, t) ==
    [paper_id |-> id,
     title |-> title,
     abstract |-> abstract,
     year |-> year,
     url |-> url,
     source |-> source,
     source_paper_id |-> source_paper_id,
     depth |-> depth,
     status |-> IF Truthy(abstract) THEN "fetched" ELSE "pending",
     classification |-> None,
     classification_confidence |-> None,
     added_at |-> t,
     fetched_at |-> IF Truthy(abstract) THEN t ELSE NullInt,
     classified_at |-> NullInt,
     expanded_at |-> NullInt,
     citations_checked_at |-> NullInt]

add_paper_overwrite(ps, id, title, source, source_paper_id, abstract, year, url, depth, t) ==
    IF HasPaper(ps, id)
    THEN [k \in 1..Len(ps) |->
            IF ps[k].paper_id = id
            THEN NewRecord(id, title, source, source_paper_id, abstract, year, url, depth, t)
            ELSE ps[k]]
    ELSE Append(ps, NewRecord(id, title, source, source_paper_id, abstract, year, url, depth, t))

add_paper(ps, id, title, source, source_paper_id, abstract, year, url, depth, t) ==
    IF HasPaper(ps, id)
    THEN ps
    ELSE Append(ps, NewRecord(id, title, source, source_paper_id, abstract, year, url, depth, t))

\* add_paper's return value
add_paper_ret(ps, id) == ~HasPaper(ps, id)

set_fetched(ps, id, abstract, metadata, t) ==
    update_paper(ps, id,
        DictUpdate([status |-> "fetched", abstract |-> abstract, fetched_at |-> t],
                   metadata))

\* set_classified that also discards on LOW confidence
set_classified_low_discards(ps, id, category, confidence, t) ==
    update_paper(ps, id,
        [status |-> IF category = "NONE" \/ confidence = "LOW" THEN "discarded"
                    ELSE "classified",
         classification |-> category,
         classification_confidence |-> confidence,
         classified_at |-> t])

\* set_classified that records the category and leaves the status
set_classified_keeps_status(ps, id, category, confidence, t) ==
    update_paper(ps, id,
        [classification |-> category,
         classification_confidence |-> confidence,
         classified_at |-> t])

set_classified(ps, id, category, confidence, t) ==
    update_paper(ps, id,
        [status |-> IF category = "NONE" THEN "discarded" ELSE "classified",
         classification |-> category,
         classification_confidence |-> confidence,
         classified_at |-> t])

\* set_expanded that puts a record already expanded back to classified
set_expanded_requeue(ps, id, t) ==
    update_paper(ps, id,
        [status |-> IF HasPaper(ps, id) /\ GetPaper(ps, id).status = "expanded"
                    THEN "classified" ELSE "expanded",
         expanded_at |-> t])

set_expanded(ps, id, t) ==
    update_paper(ps, id, [status |-> "expanded", expanded_at |-> t])

\* set_citations_checked that also marks the record expanded
set_citations_checked_expands(ps, id, t) ==
    update_paper(ps, id, [citations_checked_at |-> t, status |-> "expanded"])

set_citations_checked(ps, id, t) ==
    update_paper(ps, id, [citations_checked_at |-> t])

get_papers_by_status(ps, status) ==
    SelectSeq(ps, LAMBDA p : Get(p, "status", "pending") = status)

get_pending_papers(ps) == get_papers_by_status(ps, "pending")
get_papers_to_classify(ps) == get_papers_by_status(ps, "fetched")
\* get_papers_to_expand that also returns the records already expanded
get_papers_to_expand_again(ps) ==
    SelectSeq(ps, LAMBDA p : Get(p, "status", "pending") \in {"classified", "expanded"})
get_papers_to_expand(ps) == get_papers_by_status(ps, "classified")

\* "d[key] = d.get(key, 0) + 1"
count_into(counts, key) ==
    [x \in DOMAIN counts \cup {key} |->
        IF x = key THEN (IF key \in DOMAIN counts THEN counts[key] + 1 ELSE 1)
        ELSE counts[x]]

\* "for p in self.papers.values(): status = p.get('status', 'pending') ...",
\* from record k on
RECURSIVE count_by_status(_, _, _)
count_by_status(ps, k, by_status) ==
    IF k > Len(ps) THEN by_status
    ELSE count_by_status(ps, k + 1, count_into(by_status, Get(ps[k], "status", "pending")))

\* "for p in self.papers.values(): cat = p.get('classification'); if cat: ...",
\* from record k on
RECURSIVE count_by_category(_, _, _)
count_by_category(ps, k, by_category) ==
    IF k > Len(ps) THEN by_category
    ELSE count_by_category(ps, k + 1,
            IF Truthy(Get(ps[k], "classification", None))
            THEN count_into(by_category, ps[k].classification)
            ELSE by_category)

\* PaperState._update_metadata: self.metadata after it
update_metadata(ps, t) ==
    [total_papers |-> Len(ps),
     last_updated |-> t,
     by_status |-> count_by_status(ps, 1, <<>>),
     by_category |-> count_by_category(ps, 1, <<>>)]

\* stats that returns the metadata of the last save
stats_saved(ps, t) == update_metadata(file.papers, t)

\* PaperState.stats
stats(ps, t) == update_metadata(ps, t)

\* get_papers_for_discovery that returns the records never checked only
get_papers_for_discovery_unchecked(ps, days_since_check, t) ==
    SelectSeq(ps, LAMBDA p :
        /\ Get(p, "status", None) \in {"classified", "expanded"}
        /\ Get(p, "citations_checked_at", NullInt) = NullInt)

\* get_papers_for_discovery without the test of citations_checked_at
get_papers_for_discovery_all(ps, days_since_check, t) ==
    SelectSeq(ps, LAMBDA p : Get(p, "status", None) \in {"classified", "expanded"})

\* PaperState.get_papers_for_discovery
get_papers_for_discovery(ps, days_since_check, t) ==
    SelectSeq(ps, LAMBDA p :
        /\ Get(p, "status", None) \in {"classified", "expanded"}
        /\ \/ Get(p, "citations_checked_at", NullInt) = NullInt
           \/ Get(p, "citations_checked_at", NullInt) < t - days_since_check)

\* PaperState.get_classified_papers; category is None or a category
get_classified_papers(ps, category) ==
    SelectSeq(ps, LAMBDA p :
        /\ Get(p, "status", None) \in {"classified", "expanded"}
        /\ (category = None \/ Get(p, "classification", None) = category))

----------------------------------------------------------------------------
(* Bounds *)

\* SpecStore: how many Store calls a behaviour makes.
MaxCalls == 3

----------------------------------------------------------------------------
(* The variables no Store call touches *)

NoKwargs == [f \in {} |-> None]
NoCall == [op |-> "none"]
IdleKw == [pc |-> "off"]
\* papers.json does not exist
NoOut == [exists |-> FALSE, parses |-> TRUE, papers |-> <<>>]
\* The stages are started by hand, not by run.py
NoRun == <<>>

NoArgs == [f \in {} |-> None]

----------------------------------------------------------------------------
(* SpecStore: a caller applying any sequence of PaperState calls.          *)
(* log holds the call just made: its name and arguments.                   *)

ApiIds == {<<"", "s1">>, <<SeedPrefix, "h0">>}
ApiAbstracts == {None, "", "abs"}
\* (source, source_paper_id, depth) as the stages pass them
ApiOrigins == {<<"seed", NoneId, 0>>, <<"citation", <<"", "s1">>, 1>>}
ApiLabels == {<<"ML01", "HIGH">>, <<"ML05", "LOW">>, <<"NONE", "HIGH">>}
ApiKwargs == {[url |-> "u2"], [title |-> "t2", s2_paper_id |-> <<"", "s9">>]}

InitStore ==
    /\ papers = <<>>
    /\ file = NoFile
    /\ now = 0
    /\ ret = None
    /\ stage = "idle"
    /\ args = NoArgs
    /\ queue = <<>>
    /\ idx = 0
    /\ log = NoCall
    /\ kw = IdleKw
    /\ out = NoOut
    /\ run = NoRun

ApiFrame == UNCHANGED <<file, stage, args, queue, idx, kw, out, run>>

\* The call just made, as log holds it: twice says that the call before it was
\* the same call with the same arguments
Called(call) ==
    [f \in DOMAIN call \cup {"twice"} |->
        IF f = "twice"
        THEN call = [g \in DOMAIN log \ {"twice"} |-> log[g]]
        ELSE call[f]]

ApiAddPaper(id, abstract, origin) ==
    /\ now < MaxCalls
    /\ papers' = add_paper(papers, id, "t1", origin[1], origin[2], abstract,
                           NullInt, None, origin[3], now)
    /\ ret' = IF add_paper_ret(papers, id) THEN "True" ELSE "False"
    /\ log' = Called([op |-> "add_paper", paper_id |-> id, abstract |-> abstract,
                      source |-> origin[1], source_paper_id |-> origin[2],
                      depth |-> origin[3]])
    /\ now' = now + 1
    /\ ApiFrame

ApiUpdatePaper(id, kwargs) ==
    /\ now < MaxCalls
    /\ papers' = update_paper(papers, id, kwargs)
    /\ log' = Called([op |-> "update_paper", paper_id |-> id, kwargs |-> kwargs])
    /\ now' = now + 1
    /\ UNCHANGED ret
    /\ ApiFrame

ApiSetFetched(id, abstract) ==
    /\ now < MaxCalls
    /\ papers' = set_fetched(papers, id, abstract, NoKwargs, now)
    /\ log' = Called([op |-> "set_fetched", paper_id |-> id, abstract |-> abstract])
    /\ now' = now + 1
    /\ UNCHANGED ret
    /\ ApiFrame

ApiSetClassified(id, label) ==
    /\ now < MaxCalls
    /\ papers' = set_classified(papers, id, label[1], label[2], now)
    /\ log' = Called([op |-> "set_classified", paper_id |-> id, category |-> label[1],
                      confidence |-> label[2]])
    /\ now' = now + 1
    /\ UNCHANGED ret
    /\ ApiFrame

ApiSetExpanded(id) ==
    /\ now < MaxCalls
    /\ papers' = set_expanded(papers, id, now)
    /\ log' = Called([op |-> "set_expanded", paper_id |-> id])
    /\ now' = now + 1
    /\ UNCHANGED ret
    /\ ApiFrame

ApiSetCitationsChecked(id) ==
    /\ now < MaxCalls
    /\ papers' = set_citations_checked(papers, id, now)
    /\ log' = Called([op |-> "set_citations_checked", paper_id |-> id])
    /\ now' = now + 1
    /\ UNCHANGED ret
    /\ ApiFrame

NextStore ==
    \/ \E id \in ApiIds, a \in ApiAbstracts, o \in ApiOrigins : ApiAddPaper(id, a, o)
    \/ \E id \in ApiIds, k \in ApiKwargs : ApiUpdatePaper(id, k)
    \/ \E id \in ApiIds, a \in ApiAbstracts : ApiSetFetched(id, a)
    \/ \E id \in ApiIds, l \in ApiLabels : ApiSetClassified(id, l)
    \/ \E id \in ApiIds : ApiSetExpanded(id)
    \/ \E id \in ApiIds : ApiSetCitationsChecked(id)

SpecStore == InitStore /\ [][NextStore]_vars


----------------------------------------------------------------------------
(* The world the stages talk to *)

\* Spec: no record is stamped once the clock shows MaxTime.
MaxTime == 4

\* data/awesome_ml_sp_papers.json: the curated seeds.
SeedFile ==
    << [title |-> "A Paper", year |-> 2020, pdf_url |-> None],
       [title |-> "B Paper", year |-> NullInt,
        pdf_url |-> "https://arxiv.org/pdf/2001.00002"] >>

\* init.py normalize_title, on the titles of SeedFile
normalize_title_init(title) ==
    CASE title = "A Paper" -> "a paper"
      [] title = "B Paper" -> "b paper"
      [] OTHER -> title

\* load_arxiv_metadata: data/arxiv_metadata.json keyed by title.lower().strip();
\* NoArgs when the title has no entry.
arxiv_metadata(norm_title) ==
    IF norm_title = "a paper"
    THEN [arxiv_id |-> <<"", "2001.00001">>, abstract |-> "abs", year |-> 2020,
          url |-> "https://arxiv.org/abs/2001.00001"]
    ELSE NoArgs

\* Python's str hash is salted per process (PYTHONHASHSEED); the value is
\* kept abstract as the pair of the process's salt and the string.
Salts == {0, 1}
Hash(salt, str) == <<salt, str>>

\* fetch.py extract_arxiv_id, on the urls that occur
extract_arxiv_id(url) ==
    CASE url = "https://arxiv.org/pdf/2001.00002" -> <<"", "2001.00002">>
      [] url = "https://arxiv.org/abs/2001.00001" -> <<"", "2001.00001">>
      [] url = "https://arxiv.org/abs/2001.00002" -> <<"", "2001.00002">>
      [] OTHER -> NoneId

\* Paper stubs of the bibliographic service: two for the same paperId with
\* different content, one for another paper, with an arXiv url, one without
\* paperId.
StubS1 ==
    [paperId |-> <<"", "s1">>, title |-> "S1", abstract |-> "abs", year |-> 2026,
     url |-> "u1"]
StubS1v2 ==
    [paperId |-> <<"", "s1">>, title |-> "S1 (v2)", abstract |-> None, year |-> 2000,
     url |-> "u1"]
StubS2 ==
    [paperId |-> <<"", "s2">>, title |-> "S2", abstract |-> None, year |-> 2026,
     url |-> "https://arxiv.org/abs/2001.00002"]
StubNoId ==
    [paperId |-> NoneId, title |-> "anon", abstract |-> "abs", year |-> 2026,
     url |-> None]

Stubs == {StubS1, StubS1v2, StubS2, StubNoId}

\* The lists a citations or references request returns: empty, single, with
\* a repeated paperId in either order, with a stub that has no paperId.
StubLists ==
    { <<>>, <<StubS1>>, <<StubS2>>, <<StubS1v2, StubS1>>, <<StubS1, StubS2, StubS1v2>>,
      <<StubNoId, StubS2>> }

\* What one request can come back as: a 429, another HTTP error or a transport
\* failure, a 404, or a payload.
Reply429 == [kind |-> "429"]
ReplyError == [kind |-> "error"]
Reply404 == [kind |-> "404"]
ReplyOk(data) == [kind |-> "ok", data |-> data]

ListReplies == {Reply429, ReplyError, Reply404} \cup {ReplyOk(l) : l \in StubLists}

\* datetime.now().year
CurrentYear == 2026

----------------------------------------------------------------------------
(* Stage processes.  One stage process runs at a time (run.py runs them    *)
(* with subprocess.run, one after the other).  A stage loads the file into *)
(* papers, iterates over queue, and saves.                                 *)

\* A process that starts from an empty store whatever the file holds
load_nothing == <<>>

\* PaperState._load; json.load raises on a truncated file and the process
\* ends before it does anything (the stages start only from a valid file)
Load == IF file.exists THEN file.papers ELSE <<>>

\* list[:limit] when limit > 0
Limit(list, limit) ==
    IF limit > 0 /\ limit < Len(list) THEN SubSeq(list, 1, limit) ELSE list

PaperIds(list) == [k \in 1..Len(list) |-> list[k].paper_id]

Limits == {0, 1}

KwFrame == UNCHANGED <<kw, out, run>>

Running(name) == stage = name /\ idx < Len(queue)

\* The process ends: its memory is gone.
Exit ==
    /\ stage' = "idle"
    /\ args' = NoArgs
    /\ queue' = <<>>
    /\ idx' = 0
    /\ papers' = <<>>

\* A stage starts with the list `list` to work on; "if not list: return".
Begin(name, a, ps, list) ==
    IF list = <<>>
    THEN Exit /\ log' = [op |-> "nothing_to_do", stage |-> name]
    ELSE /\ stage' = name
         /\ args' = a
         /\ papers' = ps
         /\ queue' = PaperIds(list)
         /\ idx' = 0
         /\ log' = [op |-> "start", stage |-> name]

\* state.save() when (i + 1) % every == 0
Checkpoint(ps, every) == IF (idx + 1) % every = 0 THEN save(ps) ELSE file

\* The process is killed (there is no other cancellation).
Kill ==
    /\ stage # "idle"
    /\ Exit
    /\ log' = [op |-> "killed"]
    /\ UNCHANGED <<file, now, ret>>
    /\ KwFrame

\* The stages' checkpoint intervals, "if (i + 1) % N == 0: state.save()"
ClassifyCheckpoint == 25
FetchCheckpoint == 25
ExpandCheckpoint == 10
DiscoverCheckpoint == 25

CheckpointOf(name) ==
    CASE name = "classify" -> ClassifyCheckpoint
      [] name = "fetch" -> FetchCheckpoint
      [] name = "expand" -> ExpandCheckpoint
      [] name = "discover" -> DiscoverCheckpoint

\* The process is about to call state.save(): the final save of init or of a
\* loop, or a checkpoint.
AtSave ==
    \/ stage = "init"
    \/ stage \in {"fetch", "classify", "expand", "discover"} /\ idx = Len(queue)
    \/ /\ stage \in {"fetch", "classify", "expand", "discover"}
       /\ idx < Len(queue)
       /\ (idx + 1) % CheckpointOf(stage) = 0

\* The process is killed inside state.save(), which rewrites the file in
\* place: the file is left truncated.
KillInSave ==
    /\ AtSave
    /\ file' = Truncated
    /\ Exit
    /\ log' = [op |-> "killed_in_save"]
    /\ UNCHANGED <<now, ret>>
    /\ KwFrame

(* init.py *)

\* "if args.reset and args.state_file.exists(): unlink", then PaperState(),
\* which loads the file.
InitStart(reset, salt) ==
    /\ stage = "idle"
    /\ reset \/ file.valid
    /\ file' = IF reset THEN NoFile ELSE file
    /\ stage' = "init"
    /\ args' = [salt |-> salt]
    /\ papers' = IF reset THEN <<>> ELSE Load
    /\ queue' = <<>>
    /\ idx' = 0
    /\ log' = [op |-> "start", stage |-> "init", reset |-> reset]
    /\ UNCHANGED <<now, ret>>
    /\ KwFrame

\* One seed of the loop "for paper in awesome_papers"
init_add(ps, paper, salt, t) ==
    LET norm_title == normalize_title_init(paper.title)
        paper_id == <<SeedPrefix, Hash(salt, norm_title)>>
        arxiv == arxiv_metadata(norm_title)
    IN  IF arxiv # NoArgs
        THEN add_paper(ps, Get(arxiv, "arxiv_id", paper_id), paper.title, "seed", NoneId,
                       Get(arxiv, "abstract", None),
                       IF paper.year # NullInt THEN paper.year ELSE Get(arxiv, "year", NullInt),
                       Get(arxiv, "url", None), 0, t)
        ELSE add_paper(ps, paper_id, paper.title, "seed", NoneId, None,
                       paper.year, paper.pdf_url, 0, t)

RECURSIVE init_loop(_, _, _, _)
init_loop(ps, k, salt, t) ==
    IF k > Len(SeedFile) THEN ps
    ELSE init_loop(init_add(ps, SeedFile[k], salt, t), k + 1, salt, t)

\* The seed loop and the final state.save()
InitRun ==
    /\ stage = "init"
    /\ file' = save(init_loop(papers, 1, args.salt, now))
    /\ Exit
    /\ log' = [op |-> "init_done", added |-> Len(file'.papers) - Len(papers)]
    /\ now' = now + 1
    /\ UNCHANGED ret
    /\ KwFrame

(* classify.py *)

ClassifyStart(limit, include_pending) ==
    /\ stage = "idle"
    /\ file.valid
    /\ Begin("classify", NoArgs, Load,
             Limit(get_papers_to_classify(Load)
                     \o (IF include_pending THEN get_pending_papers(Load) ELSE <<>>),
                   limit))
    /\ UNCHANGED <<file, now, ret>>
    /\ KwFrame

\* classify_with_llm answered: the category the model gave; the confidence is
\* HIGH when an abstract was sent and LOW otherwise.
ClassifyOk(category) ==
    /\ Running("classify")
    /\ LET id == queue[idx + 1]
           p == GetPaper(papers, id)
           confidence == IF Truthy(Get(p, "abstract", None)) THEN "HIGH" ELSE "LOW"
       IN  /\ papers' = set_classified(papers, id, category, confidence, now)
           /\ file' = Checkpoint(papers', ClassifyCheckpoint)
           /\ log' = [op |-> "classify", paper_id |-> id, category |-> category]
    /\ idx' = idx + 1
    /\ now' = now + 1
    /\ UNCHANGED <<ret, stage, args, queue>>
    /\ KwFrame

\* The request raised: HTTP 429 (sleep 60, continue), another HTTPError or
\* any other exception (counted as an error).  The record is left as it is.
ClassifyFailed(reply) ==
    /\ Running("classify")
    /\ idx' = idx + 1
    /\ log' = [op |-> "classify_failed", paper_id |-> queue[idx + 1], reply |-> reply.kind]
    /\ UNCHANGED <<papers, file, now, ret, stage, args, queue>>
    /\ KwFrame

(* fetch.py *)

NoResult == [kind |-> "none"]

\* fetch_arxiv: the entry's fields, or None on no entry and on any exception
ArxivReplies ==
    { ReplyError, Reply404,
      ReplyOk([abstract |-> "abs", published |-> 2019,
               url |-> "https://arxiv.org/abs/2001.00002"]),
      ReplyOk([abstract |-> None, published |-> NullInt,
               url |-> "https://arxiv.org/abs/2001.00002"]) }

\* get_semantic_scholar_by_id, search_semantic_scholar
S2Replies == {Reply429, ReplyError, Reply404, ReplyOk(StubS1), ReplyOk(StubNoId)}

FetchStart(limit) ==
    /\ stage = "idle"
    /\ file.valid
    /\ Begin("fetch", NoArgs, Load, Limit(get_pending_papers(Load), limit))
    /\ UNCHANGED <<file, now, ret>>
    /\ KwFrame

Raised == [kind |-> "raised"]

\* the loop body without its arXiv branch
fetch_arxiv_result_skipped(p, arx) == NoResult

\* The arXiv branch of the loop body: the result, or NoResult
fetch_arxiv_result(p, arx) ==
    IF extract_arxiv_id(Get(p, "url", None)) # NoneId /\ arx.kind = "ok"
    THEN arx ELSE NoResult

\* The Semantic Scholar fallback: Raised (HTTP 429), or the result, or NoResult
fetch_s2_result(p, byid, search) ==
    LET first == IF StartsWithSeed(p.paper_id) THEN NoResult
                 ELSE IF byid.kind = "429" THEN Raised
                 ELSE IF byid.kind = "ok" THEN byid ELSE NoResult
    IN  IF first.kind # "none" THEN first
        ELSE IF search.kind = "429" THEN Raised
        ELSE IF search.kind = "ok" THEN search ELSE NoResult

\* The store after the loop body for record p (no exception raised)
fetch_one(ps, p, arx, byid, search, t) ==
    LET id == p.paper_id
        arxiv_id == extract_arxiv_id(Get(p, "url", None))
        a == fetch_arxiv_result(p, arx)
        r == fetch_s2_result(p, byid, search)
    IN  IF a.kind = "ok"
        THEN LET q == set_fetched(ps, id, a.data.abstract,
                        [year |-> IF a.data.published # NullInt THEN a.data.published
                                  ELSE Get(p, "year", NullInt),
                         url |-> a.data.url], t)
             IN  IF arxiv_id # id THEN update_paper(q, id, [arxiv_id |-> arxiv_id]) ELSE q
        ELSE IF r.kind = "ok"
        THEN LET q == set_fetched(ps, id, r.data.abstract,
                                  [year |-> r.data.year, url |-> r.data.url], t)
             IN  IF r.data.paperId # NoneId
                 THEN update_paper(q, id, [s2_paper_id |-> r.data.paperId])
                 ELSE q
        ELSE ps

\* The requests and the sleeps of the loop body for record p, in the order
\* the code makes them: a request by the service it goes to, "sleep" for
\* time.sleep(args.rate_limit), "backoff" for time.sleep(120)
fetch_events(p, arx, byid, search) ==
    LET to_arxiv == IF extract_arxiv_id(Get(p, "url", None)) # NoneId THEN <<"arxiv">>
                    ELSE <<>>
        by_id == ~StartsWithSeed(p.paper_id)
    IN  IF fetch_arxiv_result(p, arx).kind = "ok" THEN to_arxiv \o <<"sleep">>
        ELSE IF by_id /\ byid.kind = "429" THEN to_arxiv \o <<"s2", "backoff">>
        ELSE IF by_id /\ byid.kind = "ok" THEN to_arxiv \o <<"s2", "sleep">>
        ELSE to_arxiv \o (IF by_id THEN <<"s2">> ELSE <<>>)
                      \o <<"s2", IF search.kind = "429" THEN "backoff" ELSE "sleep">>

\* What a lookup came back with: a result, nothing (no entry, a 404, another
\* error), or HTTP 429
Outcome(reply) ==
    IF reply.kind = "ok" THEN "result" ELSE IF reply.kind = "429" THEN "429" ELSE "nothing"

\* The lookups of the loop body for record p, in the order the code makes
\* them, each with what it came back with; fetch_arxiv returns None on 429
fetch_lookups(p, arx, byid, search) ==
    LET by_arxiv == IF extract_arxiv_id(Get(p, "url", None)) # NoneId
                    THEN <<[by |-> "fetch_arxiv",
                            got |-> IF arx.kind = "ok" THEN "result" ELSE "nothing"]>>
                    ELSE <<>>
        by_id == IF StartsWithSeed(p.paper_id) THEN <<>>
                 ELSE <<[by |-> "get_semantic_scholar_by_id", got |-> Outcome(byid)]>>
        by_title == <<[by |-> "search_semantic_scholar", got |-> Outcome(search)]>>
    IN  IF by_arxiv # <<>> /\ by_arxiv[1].got = "result" THEN by_arxiv
        ELSE IF by_id # <<>> /\ by_id[1].got # "nothing" THEN by_arxiv \o by_id
        ELSE by_arxiv \o by_id \o by_title

FetchStep(arx, byid, search) ==
    /\ Running("fetch")
    /\ LET id == queue[idx + 1]
           p == GetPaper(papers, id)
           raised == fetch_arxiv_result(p, arx).kind = "none"
                     /\ fetch_s2_result(p, byid, search).kind = "raised"
       IN  IF raised
           THEN /\ UNCHANGED <<papers, file, now>>
                /\ log' = [op |-> "fetch_429", paper_id |-> id,
                           lookups |-> fetch_lookups(p, arx, byid, search),
                           events |-> fetch_events(p, arx, byid, search)]
           ELSE /\ papers' = fetch_one(papers, p, arx, byid, search, now)
                /\ file' = Checkpoint(papers', FetchCheckpoint)
                /\ now' = IF papers' = papers THEN now ELSE now + 1
                /\ log' = [op |-> "fetch", paper_id |-> id,
                           lookups |-> fetch_lookups(p, arx, byid, search),
                           events |-> fetch_events(p, arx, byid, search)]
    /\ idx' = idx + 1
    /\ UNCHANGED <<ret, stage, args, queue>>
    /\ KwFrame

(* expand.py *)

\* get_citations / get_references: raises on HTTP 429; returns [] on 404, on
\* any other HTTP error and on any other exception, else the stubs of the answer
get_citations_raise_404(reply) ==
    IF reply.kind \in {"429", "404"} THEN Raised
    ELSE IF reply.kind = "ok" THEN [kind |-> "returned", list |-> reply.data]
    ELSE [kind |-> "returned", list |-> <<>>]

get_citations(reply) ==
    IF reply.kind = "429" THEN Raised
    ELSE IF reply.kind = "ok" THEN [kind |-> "returned", list |-> reply.data]
    ELSE [kind |-> "returned", list |-> <<>>]

\* get_references that takes a 429 for an empty answer
get_references_empty_on_429(reply) ==
    IF reply.kind = "ok" THEN [kind |-> "returned", list |-> reply.data]
    ELSE [kind |-> "returned", list |-> <<>>]

get_references(reply) == get_citations(reply)

MaxDepths == {1, 2}

depth_filter_inclusive(list, max_depth) ==
    SelectSeq(list, LAMBDA p : Get(p, "depth", 0) <= max_depth)

\* to_expand without the filter by depth
depth_filter_off(list, max_depth) == list

\* "to_expand = [p for p in to_expand if p.get("depth", 0) < args.max_depth]"
depth_filter(list, max_depth) ==
    SelectSeq(list, LAMBDA p : Get(p, "depth", 0) < max_depth)

ExpandStart(limit, max_depth) ==
    /\ stage = "idle"
    /\ file.valid
    /\ Begin("expand", [max_depth |-> max_depth], Load,
             Limit(depth_filter(get_papers_to_expand(Load), max_depth), limit))
    /\ UNCHANGED <<file, now, ret>>
    /\ KwFrame

\* "for citing in citations: ... state.add_paper(...)", from element k on
RECURSIVE add_found(_, _, _, _, _, _, _)
add_found(ps, list, k, source, source_paper_id, depth, t) ==
    IF k > Len(list) THEN ps
    ELSE LET c == list[k]
         IN  add_found(IF c.paperId = NoneId THEN ps
                       ELSE add_paper(ps, c.paperId, c.title, source, source_paper_id,
                                      c.abstract, c.year, c.url, depth, t),
                       list, k + 1, source, source_paper_id, depth, t)

\* "s2_id = paper.get("s2_paper_id") or paper_id"
s2_id_of(p) ==
    IF Get(p, "s2_paper_id", NoneId) # NoneId THEN p.s2_paper_id ELSE p.paper_id

expand_one_references_first(ps, p, citations, references, t) ==
    LET depth == Get(p, "depth", 0)
        withReferences == add_found(ps, references, 1, "reference", p.paper_id, depth + 1, t)
        withCitations == add_found(withReferences, citations, 1, "citation", p.paper_id,
                                   depth + 1, t)
    IN  set_expanded(withCitations, p.paper_id, t)

expand_one_same_depth(ps, p, citations, references, t) ==
    LET depth == Get(p, "depth", 0)
        withCitations == add_found(ps, citations, 1, "citation", p.paper_id, depth, t)
        withReferences == add_found(withCitations, references, 1, "reference", p.paper_id,
                                    depth, t)
    IN  set_expanded(withReferences, p.paper_id, t)

\* The try block of the loop body for record p, both requests answered
expand_one(ps, p, citations, references, t) ==
    LET depth == Get(p, "depth", 0)
        withCitations == add_found(ps, citations, 1, "citation", p.paper_id, depth + 1, t)
        withReferences == add_found(withCitations, references, 1, "reference", p.paper_id,
                                    depth + 1, t)
    IN  set_expanded(withReferences, p.paper_id, t)

\* The requests and the sleeps of the loop body for record p
expand_events(p, cit, ref) ==
    IF StartsWithSeed(s2_id_of(p)) THEN <<>>
    ELSE IF get_citations(cit).kind = "raised" THEN <<"s2", "backoff">>
    ELSE <<"s2", "sleep", "s2",
           IF get_references(ref).kind = "raised" THEN "backoff" ELSE "sleep">>

ExpandStep(cit, ref) ==
    /\ Running("expand")
    /\ LET id == queue[idx + 1]
           p == GetPaper(papers, id)
       IN  IF StartsWithSeed(s2_id_of(p))
           THEN /\ UNCHANGED <<papers, file, now>>
                /\ log' = [op |-> "expand_no_s2_id", paper_id |-> id,
                           events |-> expand_events(p, cit, ref)]
           ELSE IF get_citations(cit).kind = "raised" \/ get_references(ref).kind = "raised"
           THEN /\ UNCHANGED <<papers, file, now>>
                /\ log' = [op |-> "expand_429", paper_id |-> id,
                           replies |-> <<cit.kind, ref.kind>>,
                           events |-> expand_events(p, cit, ref)]
           ELSE /\ papers' = expand_one(papers, p, get_citations(cit).list,
                                     get_references(ref).list, now)
                /\ file' = Checkpoint(papers', ExpandCheckpoint)
                /\ now' = now + 1
                /\ log' = [op |-> "expand", paper_id |-> id, depth |-> Get(p, "depth", 0),
                           citations |-> get_citations(cit).list,
                           references |-> get_references(ref).list,
                           replies |-> <<cit.kind, ref.kind>>,
                           events |-> expand_events(p, cit, ref)]
    /\ idx' = idx + 1
    /\ UNCHANGED <<ret, stage, args, queue>>
    /\ KwFrame

(* discover.py *)

DaysArgs == {0, 2}

DiscoverStart(limit, days) ==
    /\ stage = "idle"
    /\ file.valid
    /\ Begin("discover", [days |-> days], Load,
             Limit(get_papers_for_discovery(Load, days, now), limit))
    /\ UNCHANGED <<file, now, ret>>
    /\ KwFrame

\* "for citing in citations: ...", from element k on
RECURSIVE add_recent(_, _, _, _, _, _)
add_recent(ps, list, k, source_paper_id, depth, t) ==
    IF k > Len(list) THEN ps
    ELSE LET c == list[k]
             isNew == c.paperId # NoneId /\ ~HasPaper(ps, c.paperId)
             recent == c.year # NullInt /\ c.year # 0 /\ c.year >= CurrentYear - 1
         IN  add_recent(IF isNew /\ recent
                        THEN add_paper(ps, c.paperId, c.title, "citation", source_paper_id,
                                       c.abstract, c.year, c.url, depth, t)
                        ELSE ps,
                        list, k + 1, source_paper_id, depth, t)

DiscoverStep(cit) ==
    /\ Running("discover")
    /\ LET id == queue[idx + 1]
           p == GetPaper(papers, id)
       IN  IF StartsWithSeed(s2_id_of(p))
           THEN /\ UNCHANGED <<papers, file, now>>
                /\ log' = [op |-> "discover_no_s2_id", paper_id |-> id]
           ELSE IF get_citations(cit).kind = "raised"
           THEN /\ UNCHANGED <<papers, file, now>>
                /\ log' = [op |-> "discover_429", paper_id |-> id, reply |-> cit.kind]
           ELSE /\ papers' = set_citations_checked(
                                add_recent(papers, get_citations(cit).list, 1, id,
                                           Get(p, "depth", 0) + 1, now),
                                id, now)
                /\ file' = Checkpoint(papers', DiscoverCheckpoint)
                /\ now' = now + 1
                /\ log' = [op |-> "discover", paper_id |-> id, reply |-> cit.kind]
    /\ idx' = idx + 1
    /\ UNCHANGED <<ret, stage, args, queue>>
    /\ KwFrame

(* every looping stage: "# Final save", state.save() *)

StageFinish ==
    /\ stage \in {"fetch", "classify", "expand", "discover"}
    /\ idx = Len(queue)
    /\ file' = save(papers)
    /\ Exit
    /\ log' = [op |-> "finished", stage |-> stage]
    /\ UNCHANGED <<now, ret>>
    /\ KwFrame

----------------------------------------------------------------------------
(* Spec: the pipeline's stages run in any order, any number of times, from *)
(* no store file.                                                          *)

Init ==
    /\ papers = <<>>
    /\ file = NoFile
    /\ now = 0
    /\ ret = None
    /\ stage = "idle"
    /\ args = NoArgs
    /\ queue = <<>>
    /\ idx = 0
    /\ log = NoCall
    /\ kw = IdleKw
    /\ out = NoOut
    /\ run = NoRun

\* A stage starts, handles the next element of its list, ends or is killed.
\* No record is stamped once the clock shows MaxTime.
Next ==
    \/ \E reset \in BOOLEAN, salt \in Salts : InitStart(reset, salt)
    \/ now < MaxTime /\ InitRun
    \/ \E l \in Limits : FetchStart(l)
    \/ now < MaxTime
       /\ \E a \in ArxivReplies, b \in S2Replies, c \in S2Replies : FetchStep(a, b, c)
    \/ \E l \in Limits, ip \in BOOLEAN : ClassifyStart(l, ip)
    \/ now < MaxTime /\ \E c \in Categories : ClassifyOk(c)
    \/ now < MaxTime /\ \E r \in {Reply429, ReplyError} : ClassifyFailed(r)
    \/ \E l \in Limits, d \in MaxDepths : ExpandStart(l, d)
    \/ now < MaxTime /\ \E c \in ListReplies, r \in ListReplies : ExpandStep(c, r)
    \/ \E l \in Limits, d \in DaysArgs : DiscoverStart(l, d)
    \/ now < MaxTime /\ \E c \in ListReplies : DiscoverStep(c)
    \/ StageFinish
    \/ Kill
    \/ KillInSave

Spec == Init /\ [][Next]_vars

----------------------------------------------------------------------------
(* SpecCkpt: one expand run, and the runs after it, over a store file that *)
(* holds NCkpt classified records with bibliographic-service ids (seeds    *)
(* that init added with arXiv metadata and classify labelled).  Each       *)
(* request is answered with an empty list or with HTTP 429.                *)

NCkpt == 12

RECURSIVE ckpt_store(_)
ckpt_store(n) ==
    IF n = 0 THEN <<>>
    ELSE set_classified(
            add_paper(ckpt_store(n - 1), <<"", <<n>>>>, "Seed", "seed", NoneId, "abs",
                      2020, None, 0, 0),
            <<"", <<n>>>>, "ML05", "HIGH", 1)

InitCkpt ==
    /\ papers = <<>>
    /\ file = save(ckpt_store(NCkpt))
    /\ now = 2
    /\ ret = None
    /\ stage = "idle"
    /\ args = NoArgs
    /\ queue = <<>>
    /\ idx = 0
    /\ log = NoCall
    /\ kw = IdleKw
    /\ out = NoOut
    /\ run = NoRun

\* A single run of "expand --max-depth 2"; the run can be killed.
NextCkpt ==
    \/ log = NoCall /\ ExpandStart(0, 2)
    \/ \E c \in {Reply429, ReplyOk(<<>>)} : ExpandStep(c, ReplyOk(<<>>))
    \/ StageFinish
    \/ Kill
    \/ KillInSave

SpecCkpt == InitCkpt /\ [][NextCkpt]_vars

----------------------------------------------------------------------------
(* SpecSearch: the keyword searches of fetch_papers.py (keywords-only     *)
(* mode of main) and of scripts/fetch_all.py (one category).  kw is the   *)
(* running script: the keyword it is at, the raw papers and the offset of *)
(* the search in progress, and the results the searches returned.         *)

Keywords == <<"model stealing", "model extraction", "model inversion">>

\* --limit, the most raw papers one keyword search returns
SearchLimit == 2

\* "min(limit - len(papers), 100)": the service's largest page
PageMax == 100

RawBatches == {<<>>, <<"r1">>, <<"r2">>, <<"r1", "r2">>, <<"r2", "r3">>}

\* The answer to a search request: a 429, another HTTP error or a transport
\* failure, a 404, or a page of at most the requested number of raw papers,
\* with or without a "next" offset.
SearchReplies(limit) ==
    {Reply429, ReplyError, Reply404}
      \cup {[kind |-> "ok", data |-> b, next |-> n] :
              b \in {x \in RawBatches : Len(x) <= limit}, n \in BOOLEAN}

Take(list, n) == SubSeq(list, 1, Min(n, Len(list)))

StoreFrame == UNCHANGED <<papers, file, now, ret, stage, args, queue, idx, out, run>>

InitSearch ==
    /\ papers = <<>>
    /\ file = NoFile
    /\ now = 0
    /\ ret = None
    /\ stage = "idle"
    /\ args = NoArgs
    /\ queue = <<>>
    /\ idx = 0
    /\ log = NoCall
    /\ kw = IdleKw
    /\ out = NoOut
    /\ run = NoRun

\* main of either script, up to the first keyword
SearchStart(prog) ==
    /\ kw.pc = "off"
    /\ kw' = [pc |-> "running", prog |-> prog, k |-> 1, papers |-> <<>>, offset |-> 0,
              results |-> <<>>]
    /\ log' = [op |-> "start_search", prog |-> prog]
    /\ StoreFrame

SearchRunning(prog) == kw.pc = "running" /\ kw.prog = prog /\ kw.k <= Len(Keywords)

\* The search of a keyword returns list: the loop over the keywords goes on
Returned(list) ==
    [kw EXCEPT !.results = Append(@, list), !.k = @ + 1, !.papers = <<>>, !.offset = 0]

\* fetch_papers.py: one turn of the "while True" of search_papers, called by
\* fetch_papers_by_keywords, called by main.  raise_for_status raises on
\* every status of 400 and above, requests.get on a transport failure;
\* nothing between the request and the interpreter catches it.
FetchPapersRequest(reply) ==
    /\ SearchRunning("fetch_papers")
    /\ reply \in SearchReplies(Min(SearchLimit - Len(kw.papers), PageMax))
    /\ log' = [op |-> "search", prog |-> "fetch_papers", keyword |-> kw.k,
               offset |-> kw.offset, reply |-> reply.kind]
    /\ kw' = CASE reply.kind = "429" -> kw
               [] reply.kind \in {"error", "404"} -> [kw EXCEPT !.pc = "aborted"]
               [] reply.kind = "ok" ->
                    IF reply.data = <<>> THEN Returned(Take(kw.papers, SearchLimit))
                    ELSE IF Len(kw.papers \o reply.data) >= SearchLimit \/ ~reply.next
                    THEN Returned(Take(kw.papers \o reply.data, SearchLimit))
                    ELSE [kw EXCEPT !.papers = @ \o reply.data,
                                    !.offset = @ + Len(reply.data)]
    /\ StoreFrame

\* scripts/fetch_all.py: search_papers, called once for each keyword by
\* fetch_for_category, which sleeps rate_limit_delay after each.  Every
\* requests.RequestException, the HTTPError of raise_for_status included, is
\* printed and answered with [].
FetchAllRequest(reply) ==
    /\ SearchRunning("fetch_all")
    /\ reply \in SearchReplies(Min(SearchLimit, PageMax))
    /\ log' = [op |-> "search", prog |-> "fetch_all", keyword |-> kw.k,
               offset |-> kw.offset, reply |-> reply.kind]
    /\ kw' = IF reply.kind = "ok" THEN Returned(reply.data) ELSE Returned(<<>>)
    /\ StoreFrame

\* After the last keyword the script goes on to write its output file.
SearchFinish ==
    /\ kw.pc = "running"
    /\ kw.k > Len(Keywords)
    /\ kw' = [kw EXCEPT !.pc = "written"]
    /\ log' = [op |-> "written", prog |-> kw.prog]
    /\ StoreFrame

NextSearch ==
    \/ \E prog \in {"fetch_papers", "fetch_all"} : SearchStart(prog)
    \/ \E reply \in SearchReplies(PageMax) : FetchPapersRequest(reply)
    \/ \E reply \in SearchReplies(PageMax) : FetchAllRequest(reply)
    \/ SearchFinish

SpecSearch == InitSearch /\ [][NextSearch]_vars

----------------------------------------------------------------------------
(* SpecPages: one call of search_papers or of fetch_citations of           *)
(* fetch_papers.py against a service that holds ServiceTotal items. An     *)
(* item is its position in the service's result set; a citation entry at   *)
(* a position HasPaperId does not hold comes without citingPaper.paperId.  *)
(* kw is the call: its limit, papers, offset and the pages it received.    *)

\* The items of the result set the service holds
ServiceTotal == 260

\* "limit", and None ("fetch all") for fetch_citations
PageLimits == {1, 100, 101, 250}

\* The sizes a page of the service comes in, besides a full one
ShortPages == {37}

\* "if citing_paper.get("paperId")"
HasPaperId(item) == item % 3 # 2

\* The items at offset .. offset + size - 1
PageAt(offset, size) == [i \in 1..size |-> offset + i - 1]

\* The answers to a request of batch_size items at offset: a 429, a 404,
\* another error, or a page of at most batch_size items, with or without "next"
PageReplies(offset, batch_size) ==
    LET most == Min(batch_size, ServiceTotal - offset)
        sizes == {n \in ShortPages \cup {most} : n <= most /\ n >= 0} \cup {0}
    IN  {Reply429, Reply404, ReplyError}
          \cup {[kind |-> "ok", data |-> PageAt(offset, n), next |-> more] :
                  n \in sizes, more \in BOOLEAN}

\* "offset += PageMax"
next_offset_by_page_max(offset, batch) == offset + PageMax

\* "offset += len(batch)"
next_offset(offset, batch) == offset + Len(batch)

\* "min(limit - len(papers), 100)", "100 if limit is None"
batch_size(limit, plist) ==
    IF limit = NullInt THEN PageMax ELSE Min(limit - Len(plist), PageMax)

\* "return papers[:limit]", "return papers if limit is None else papers[:limit]"
cut(plist, limit) == IF limit = NullInt THEN plist ELSE Take(plist, limit)

PagesIdle ==
    [pc |-> "off", prog |-> "none", limit |-> 0, papers |-> <<>>, offset |-> 0,
     got |-> <<>>, retry |-> NullInt, retried |-> FALSE, result |-> <<>>]

InitPages ==
    /\ papers = <<>>
    /\ file = NoFile
    /\ now = 0
    /\ ret = None
    /\ stage = "idle"
    /\ args = NoArgs
    /\ queue = <<>>
    /\ idx = 0
    /\ log = NoCall
    /\ kw = PagesIdle
    /\ out = NoOut
    /\ run = NoRun

\* search_papers(query, limit) or fetch_citations(paper_id, limit) is called
PagesCall(prog, limit) ==
    /\ kw.pc = "off"
    /\ prog = "search_papers" => limit # NullInt
    /\ kw' = [PagesIdle EXCEPT !.pc = "running", !.prog = prog, !.limit = limit]
    /\ log' = [op |-> "call", prog |-> prog]
    /\ StoreFrame

\* The call has returned plist, cut to the limit
PagesReturn(plist) ==
    [kw EXCEPT !.pc = "returned", !.papers = plist, !.result = cut(plist, kw.limit),
               !.retry = NullInt]

\* The page received at the offset, as the claims see it
PagesGot(reply) ==
    Append(kw.got, [offset |-> kw.offset, size |-> Len(reply.data)])

\* One turn of the "while True" of search_papers
SearchPapersTurn(reply) ==
    /\ kw.pc = "running"
    /\ kw.prog = "search_papers"
    /\ reply \in PageReplies(kw.offset, batch_size(kw.limit, kw.papers))
    /\ log' = [op |-> "request", prog |-> kw.prog, offset |-> kw.offset,
               limit |-> batch_size(kw.limit, kw.papers), reply |-> reply.kind]
    /\ kw' = CASE reply.kind = "429" -> [kw EXCEPT !.retry = kw.offset, !.retried = TRUE]
               [] reply.kind \in {"404", "error"} -> [kw EXCEPT !.pc = "raised"]
               [] reply.kind = "ok" ->
                    IF reply.data = <<>> THEN PagesReturn(kw.papers)
                    ELSE IF Len(kw.papers \o reply.data) >= kw.limit \/ ~reply.next
                    THEN [PagesReturn(kw.papers \o reply.data) EXCEPT !.got = PagesGot(reply)]
                    ELSE [kw EXCEPT !.papers = @ \o reply.data,
                                    !.offset = next_offset(@, reply.data),
                                    !.got = PagesGot(reply), !.retry = NullInt]
    /\ StoreFrame

\* One turn of the "while limit is None or len(papers) < limit" of fetch_citations
FetchCitationsTurn(reply) ==
    /\ kw.pc = "running"
    /\ kw.prog = "fetch_citations"
    /\ reply \in PageReplies(kw.offset, batch_size(kw.limit, kw.papers))
    /\ log' = [op |-> "request", prog |-> kw.prog, offset |-> kw.offset,
               limit |-> batch_size(kw.limit, kw.papers), reply |-> reply.kind]
    /\ kw' = CASE reply.kind = "429" -> [kw EXCEPT !.retry = kw.offset, !.retried = TRUE]
               [] reply.kind = "404" -> PagesReturn(kw.papers)
               [] reply.kind = "error" -> [kw EXCEPT !.pc = "raised"]
               [] reply.kind = "ok" ->
                    LET found == kw.papers \o SelectSeq(reply.data, HasPaperId)
                    IN  IF reply.data = <<>> THEN PagesReturn(kw.papers)
                        ELSE IF ~reply.next
                                  \/ (kw.limit # NullInt /\ Len(found) >= kw.limit)
                        THEN [PagesReturn(found) EXCEPT !.got = PagesGot(reply)]
                        ELSE [kw EXCEPT !.papers = found,
                                        !.offset = next_offset(@, reply.data),
                                        !.got = PagesGot(reply), !.retry = NullInt]
    /\ StoreFrame

NextPages ==
    \/ \E prog \in {"search_papers", "fetch_citations"}, limit \in PageLimits \cup {NullInt} :
          PagesCall(prog, limit)
    \/ \E reply \in PageReplies(kw.offset, batch_size(kw.limit, kw.papers)) :
          SearchPapersTurn(reply)
    \/ \E reply \in PageReplies(kw.offset, batch_size(kw.limit, kw.papers)) :
          FetchCitationsTurn(reply)

SpecPages == InitPages /\ [][NextPages]_vars

----------------------------------------------------------------------------
(* SpecNotFound: the two programs that ask the service for the citations   *)
(* of a paper: the stages of the pipeline (run is empty), or a call of     *)
(* fetch_citations of fetch_papers.py (run names the script).              *)

FetchPapersRun == <<"fetch_papers">>

InitNotFound ==
    /\ papers = <<>>
    /\ file = NoFile
    /\ now = 0
    /\ ret = None
    /\ stage = "idle"
    /\ args = NoArgs
    /\ queue = <<>>
    /\ idx = 0
    /\ log = NoCall
    /\ \/ kw = IdleKw /\ run = NoRun
       \/ kw = PagesIdle /\ run = FetchPapersRun
    /\ out = NoOut

NextNotFound ==
    \/ run = NoRun /\ Next
    \/ run = FetchPapersRun /\ NextPages

SpecNotFound == InitNotFound /\ [][NextNotFound]_vars

----------------------------------------------------------------------------
(* fetch_papers.py: title normalisation, deduplication, merge.  A title is *)
(* a string; its characters are read with SubSeq.                         *)

UpperCase == "ABCDEFGHIJKLMNOPQRSTUVWXYZ"
LowerCase == "abcdefghijklmnopqrstuvwxyz"
Digits == "0123456789"

CharAt(s, i) == SubSeq(s, i, i)
CharsOf(s) == {CharAt(s, i) : i \in 1..Len(s)}

UpperChars == CharsOf(UpperCase)
WordChars == UpperChars \cup CharsOf(LowerCase) \cup CharsOf(Digits) \cup {"_"}
LowerOf ==
    [c \in UpperChars |->
        CharAt(LowerCase, CHOOSE i \in 1..Len(UpperCase) : CharAt(UpperCase, i) = c)]

\* str.lower, of one character
lower_char(c) == IF c \in UpperChars THEN LowerOf[c] ELSE c

\* The regular expression classes \w and \s, on the characters of the titles
IsWordChar(c) == c \in WordChars
IsSpace(c) == c = " "

\* "title.lower()", from character i on
RECURSIVE str_lower(_, _)
str_lower(s, i) ==
    IF i > Len(s) THEN "" ELSE lower_char(CharAt(s, i)) \o str_lower(s, i + 1)

\* "re.sub(r'[^\w\s]', '', t)", from character i on
RECURSIVE remove_punctuation(_, _)
remove_punctuation(s, i) ==
    IF i > Len(s) THEN ""
    ELSE IF IsWordChar(CharAt(s, i)) \/ IsSpace(CharAt(s, i))
    THEN CharAt(s, i) \o remove_punctuation(s, i + 1)
    ELSE remove_punctuation(s, i + 1)

\* "re.sub(r'\s+', ' ', t)", from character i on
RECURSIVE collapse_spaces(_, _)
collapse_spaces(s, i) ==
    IF i > Len(s) THEN ""
    ELSE IF IsSpace(CharAt(s, i))
    THEN IF i > 1 /\ IsSpace(CharAt(s, i - 1))
         THEN collapse_spaces(s, i + 1)
         ELSE " " \o collapse_spaces(s, i + 1)
    ELSE CharAt(s, i) \o collapse_spaces(s, i + 1)

\* str.strip
RECURSIVE strip(_)
strip(s) ==
    IF Len(s) = 0 THEN s
    ELSE IF IsSpace(CharAt(s, 1)) THEN strip(SubSeq(s, 2, Len(s)))
    ELSE IF IsSpace(CharAt(s, Len(s))) THEN strip(SubSeq(s, 1, Len(s) - 1))
    ELSE s

\* fetch_papers.normalize_title
normalize_title(title) ==
    strip(collapse_spaces(remove_punctuation(str_lower(title, 1), 1), 1))

\* str.startswith
startswith(s, prefix) ==
    Len(prefix) <= Len(s) /\ (Len(prefix) = 0 \/ SubSeq(s, 1, Len(prefix)) = prefix)

\* "set(t.split())": the words of t from character i on, word the one being read
RECURSIVE split_set(_, _, _)
split_set(t, i, word) ==
    IF i > Len(t) THEN (IF word = "" THEN {} ELSE {word})
    ELSE IF IsSpace(CharAt(t, i))
    THEN (IF word = "" THEN {} ELSE {word}) \cup split_set(t, i + 1, "")
    ELSE split_set(t, i + 1, word \o CharAt(t, i))

\* The thresholds of titles_are_similar: "min_len >= 20", "len(words) >= 4",
\* "jaccard >= 0.8" (as the fraction 4/5)
MinPrefixLen == 20
MinWords == 4
JaccardNum == 4
JaccardDen == 5

\* titles_are_similar without the length condition of the prefix rule
titles_are_similar_any_prefix(t1, t2) ==
    \/ t1 = t2
    \/ startswith(t1, t2) \/ startswith(t2, t1)
    \/ LET words1 == split_set(t1, 1, "")
           words2 == split_set(t2, 1, "")
       IN  /\ Cardinality(words1) >= MinWords
           /\ Cardinality(words2) >= MinWords
           /\ JaccardDen * Cardinality(words1 \cap words2)
                 >= JaccardNum * Cardinality(words1 \cup words2)

\* titles_are_similar without the word-count condition of the overlap rule
titles_are_similar_few_words(t1, t2) ==
    \/ t1 = t2
    \/ (startswith(t1, t2) \/ startswith(t2, t1)) /\ Min(Len(t1), Len(t2)) >= MinPrefixLen
    \/ LET words1 == split_set(t1, 1, "")
           words2 == split_set(t2, 1, "")
       IN  /\ words1 \cup words2 # {}
           /\ JaccardDen * Cardinality(words1 \cap words2)
                 >= JaccardNum * Cardinality(words1 \cup words2)

\* titles_are_similar without the rule for identical titles
titles_are_similar_no_exact(t1, t2) ==
    IF (startswith(t1, t2) \/ startswith(t2, t1)) /\ Min(Len(t1), Len(t2)) >= MinPrefixLen
    THEN TRUE
    ELSE LET words1 == split_set(t1, 1, "")
             words2 == split_set(t2, 1, "")
         IN  /\ Cardinality(words1) >= MinWords
             /\ Cardinality(words2) >= MinWords
             /\ JaccardDen * Cardinality(words1 \cap words2)
                   >= JaccardNum * Cardinality(words1 \cup words2)

\* fetch_papers.titles_are_similar
titles_are_similar(t1, t2) ==
    IF t1 = t2 THEN TRUE
    ELSE IF (startswith(t1, t2) \/ startswith(t2, t1)) /\ Min(Len(t1), Len(t2)) >= MinPrefixLen
    THEN TRUE
    ELSE LET words1 == split_set(t1, 1, "")
             words2 == split_set(t2, 1, "")
         IN  /\ Cardinality(words1) >= MinWords
             /\ Cardinality(words2) >= MinWords
             /\ JaccardDen * Cardinality(words1 \cap words2)
                   >= JaccardNum * Cardinality(words1 \cup words2)

\* "for j, p2 in enumerate(papers)" of deduplicate_papers, run against every
\* member of the group instead of its seed
RECURSIVE dedup_inner_any_member(_, _, _, _, _)
dedup_inner_any_member(plist, norm1, j, used, group) ==
    IF j > Len(plist) THEN [group |-> group, used |-> used]
    ELSE IF j \in used THEN dedup_inner_any_member(plist, norm1, j + 1, used, group)
    ELSE IF \E k \in 1..Len(group) :
               titles_are_similar(normalize_title(plist[group[k]].title),
                                  normalize_title(plist[j].title))
    THEN dedup_inner_any_member(plist, norm1, j + 1, used \cup {j}, Append(group, j))
    ELSE dedup_inner_any_member(plist, norm1, j + 1, used, group)

\* "for j, p2 in enumerate(papers)" of deduplicate_papers, from index j on:
\* the group (indices into papers) and the indices used
RECURSIVE dedup_inner(_, _, _, _, _)
dedup_inner(plist, norm1, j, used, group) ==
    IF j > Len(plist) THEN [group |-> group, used |-> used]
    ELSE IF j \in used THEN dedup_inner(plist, norm1, j + 1, used, group)
    ELSE IF titles_are_similar(norm1, normalize_title(plist[j].title))
    THEN dedup_inner(plist, norm1, j + 1, used \cup {j}, Append(group, j))
    ELSE dedup_inner(plist, norm1, j + 1, used, group)

\* "for i, p1 in enumerate(papers)" of deduplicate_papers, from index i on
RECURSIVE dedup_groups(_, _, _, _)
dedup_groups(plist, i, used, groups) ==
    IF i > Len(plist) THEN groups
    ELSE IF i \in used THEN dedup_groups(plist, i + 1, used, groups)
    ELSE LET inner == dedup_inner(plist, normalize_title(plist[i].title), 1,
                                  used \cup {i}, <<i>>)
         IN  dedup_groups(plist, i + 1, inner.used, Append(groups, inner.group))

\* "def score(p)": (has venue, year or 0, citation_count)
score(p) ==
    << IF Truthy(p.venue) THEN 1 ELSE 0,
       IF p.year = NullInt THEN 0 ELSE p.year,
       p.citation_count >>

\* Python's order on tuples of three integers
TupleGreater(a, b) ==
    \/ a[1] > b[1]
    \/ a[1] = b[1] /\ a[2] > b[2]
    \/ a[1] = b[1] /\ a[2] = b[2] /\ a[3] > b[3]

\* max that keeps the last of the maximal elements
RECURSIVE py_max_last(_, _, _)
py_max_last(list, k, best) ==
    IF k > Len(list) THEN best
    ELSE py_max_last(list, k + 1,
                     IF ~TupleGreater(score(best), score(list[k])) THEN list[k] ELSE best)

\* "max(group, key=score)", from element k on: the first of the maximal elements
RECURSIVE py_max(_, _, _)
py_max(list, k, best) ==
    IF k > Len(list) THEN best
    ELSE py_max(list, k + 1,
                IF TupleGreater(score(list[k]), score(best)) THEN list[k] ELSE best)

\* "for group in groups": the record kept for each group
dedup_keep(plist, groups) ==
    [g \in 1..Len(groups) |->
        IF Len(groups[g]) = 1 THEN plist[groups[g][1]]
        ELSE LET members == [k \in 1..Len(groups[g]) |-> plist[groups[g][k]]]
             IN  py_max(members, 2, members[1])]

\* fetch_papers.deduplicate_papers
deduplicate_papers(plist) == dedup_keep(plist, dedup_groups(plist, 1, {}, <<>>))

----------------------------------------------------------------------------
(* SpecDedup: titles_are_similar applied to a pair of titles, and          *)
(* deduplicate_papers applied to a list of papers, the inputs drawn in the *)
(* initial state.                                                          *)

\* dataclass Paper, with the fields the deduplication and the merge read
Paper(paper_id, title, venue, year, citation_count) ==
    [paper_id |-> paper_id, title |-> title, venue |-> venue, year |-> year,
     citation_count |-> citation_count, first_seen |-> NullInt]

K1 == Paper("k1", "Knockoff Nets", "", 2019, 10)
K2 == Paper("k2", "Knockoff Nets: Stealing Functionality", "CVPR", 2019, 5)
K3 == Paper("k3", "Knockoff Nets: Stealing Functionality of Black-Box Models", None,
            NullInt, 900)
K4 == Paper("k4", "knockoff nets stealing functionality", "CVPR", 2019, 5)
M1 == Paper("m1", "Model Extraction Attacks on APIs", "arXiv", 2020, 1)
M2 == Paper("m2", "Model Extraction Attacks APIs", "arXiv", 2021, 0)
M3 == Paper("m3", "Extraction Attacks on APIs", None, 2022, 50)
D1 == Paper("d1", "Deep Model Inversion", "", 2022, 3)
D2 == Paper("d2", "Deep Model Inversion Attacks", "", 2022, 3)

DedupPapers == {K1, K2, K3, K4, M1, M2, M3, D1, D2}

\* Titles for titles_are_similar: those of the papers, and pairs around the
\* thresholds (19 characters, three words)
Titles ==
    {p.title : p \in DedupPapers}
      \cup {"Deep Model Stealing", "Deep Model Stealing Attacks",
            "Model Extraction Attacks", "Attacks Model Extraction", "", "A Survey"}

\* The longest list deduplicate_papers is given
MaxBatch == 3

DedupFrame == UNCHANGED <<papers, file, now, ret, stage, args, queue, idx, out, run>>

InitDedup ==
    /\ papers = <<>>
    /\ file = NoFile
    /\ now = 0
    /\ ret = None
    /\ stage = "idle"
    /\ args = NoArgs
    /\ queue = <<>>
    /\ idx = 0
    /\ log = NoCall
    /\ out = NoOut
    /\ run = NoRun
    /\ \/ \E t1 \in Titles, t2 \in Titles : kw = [pc |-> "titles", t1 |-> t1, t2 |-> t2]
       \/ \E n \in 0..MaxBatch : \E list \in [1..n -> DedupPapers] :
             kw = [pc |-> "input", papers |-> list]

\* titles_are_similar(normalize_title(t1), normalize_title(t2))
CompareTitles ==
    /\ kw.pc = "titles"
    /\ kw' = [pc |-> "compared", t1 |-> kw.t1, t2 |-> kw.t2,
              similar |-> titles_are_similar(normalize_title(kw.t1),
                                             normalize_title(kw.t2))]
    /\ log' = [op |-> "titles_are_similar"]
    /\ DedupFrame

\* deduplicate_papers(papers)
Deduplicate ==
    /\ kw.pc = "input"
    /\ LET groups == dedup_groups(kw.papers, 1, {}, <<>>)
       IN  kw' = [pc |-> "deduped", papers |-> kw.papers, groups |-> groups,
                  deduped |-> dedup_keep(kw.papers, groups)]
    /\ log' = [op |-> "deduplicate_papers"]
    /\ DedupFrame

NextDedup == CompareTitles \/ Deduplicate

SpecDedup == InitDedup /\ [][NextDedup]_vars

----------------------------------------------------------------------------
(* fetch_papers.py: the corpus file. A dict of papers is a sequence of     *)
(* records with distinct paper_id, in insertion order; a date is the       *)
(* number of the day, NullInt where the field is None.                     *)

\* The position of key paper_id in dict d, 0 if it is not a key
dict_index(d, paper_id) ==
    IF \E k \in 1..Len(d) : d[k].paper_id = paper_id
    THEN CHOOSE k \in 1..Len(d) : d[k].paper_id = paper_id
    ELSE 0

\* "d[paper.paper_id] = paper": a key keeps its position, a new key goes last
dict_put(d, paper) ==
    IF dict_index(d, paper.paper_id) = 0 THEN Append(d, paper)
    ELSE [d EXCEPT ![dict_index(d, paper.paper_id)] = paper]

\* "for p in data.get('papers', [])" of load_existing_papers, from record k on
RECURSIVE load_records(_, _, _)
load_records(list, k, existing) ==
    IF k > Len(list) THEN existing
    ELSE load_records(list, k + 1, dict_put(existing, list[k]))

\* fetch_papers.load_existing_papers: a file that does not exist, or one that
\* raises JSONDecodeError or KeyError, gives the empty dict
load_existing_papers(f) ==
    IF ~f.exists THEN <<>>
    ELSE IF ~f.parses THEN <<>>
    ELSE load_records(f.papers, 1, <<>>)

\* the first loop of merge_papers, without the assignment
backfill_none(existing, today) == existing

\* "for paper_id, paper in merged.items()": first_seen set where it is missing
backfill(existing, today) ==
    [k \in 1..Len(existing) |->
        IF existing[k].first_seen = NullInt
        THEN [existing[k] EXCEPT !.first_seen = today]
        ELSE existing[k]]

\* the second loop of merge_papers, stamping a replaced record with today
RECURSIVE merge_loop_restamp(_, _, _, _, _, _)
merge_loop_restamp(merged, new_papers, k, today, added, updated) ==
    IF k > Len(new_papers)
    THEN [papers |-> merged, added |-> added, updated |-> updated]
    ELSE LET paper == new_papers[k]
             at == dict_index(merged, paper.paper_id)
         IN  IF at # 0
             THEN merge_loop_restamp([merged EXCEPT ![at] = [paper EXCEPT !.first_seen = today]],
                                     new_papers, k + 1, today, added, updated + 1)
             ELSE merge_loop_restamp(Append(merged, [paper EXCEPT !.first_seen = today]),
                                     new_papers, k + 1, today, added + 1, updated)

\* "for paper in new_papers" of merge_papers, from record k on
RECURSIVE merge_loop(_, _, _, _, _, _)
merge_loop(merged, new_papers, k, today, added, updated) ==
    IF k > Len(new_papers)
    THEN [papers |-> merged, added |-> added, updated |-> updated]
    ELSE LET paper == new_papers[k]
             at == dict_index(merged, paper.paper_id)
         IN  IF at # 0
             THEN LET old == merged[at]
                      first_seen == IF old.first_seen # NullInt THEN old.first_seen
                                    ELSE today
                  IN  merge_loop([merged EXCEPT ![at] = [paper EXCEPT !.first_seen = first_seen]],
                                 new_papers, k + 1, today, added, updated + 1)
             ELSE merge_loop(Append(merged, [paper EXCEPT !.first_seen = today]),
                             new_papers, k + 1, today, added + 1, updated)

\* fetch_papers.merge_papers: list(merged.values()) and the two counts printed
merge_papers(existing, new_papers, today) ==
    merge_loop(backfill(existing, today), new_papers, 1, today, 0, 0)

\* "key=lambda p: (-(p.year or 0), -p.citation_count)"
sort_key(p) == << 0 - (IF p.year = NullInt THEN 0 ELSE p.year), 0 - p.citation_count >>

\* Python's order on tuples of two integers
KeyLess(a, b) == a[1] < b[1] \/ (a[1] = b[1] /\ a[2] < b[2])

\* p put into the sorted list after the records whose key is not greater
sort_insert(sorted, p) ==
    LET before == Cardinality({k \in 1..Len(sorted) : ~KeyLess(sort_key(p), sort_key(sorted[k]))})
    IN  SubSeq(sorted, 1, before) \o <<p>> \o SubSeq(sorted, before + 1, Len(sorted))

\* "papers.sort(key=...)": a stable sort, from record k on
RECURSIVE list_sort(_, _, _)
list_sort(list, k, sorted) ==
    IF k > Len(list) THEN sorted
    ELSE list_sort(list, k + 1, sort_insert(sorted, list[k]))

----------------------------------------------------------------------------
(* SpecCorpus: runs of fetch_papers.main over the output file. The file    *)
(* found by the first run is drawn in the initial state; the search        *)
(* results of a run are one of Batches.                                    *)

\* p as the file holds it, first seen on day d
Seen(p, d) == [p EXCEPT !.first_seen = d]

\* K2 as an earlier search returned it
K2Old == [K2 EXCEPT !.venue = "", !.citation_count = 4]

\* The day of the first run of the model, and the day the files were written
FirstDay == 2
FileDay == 1

\* The last day a run of the model starts on
MaxDay == 3

\* The runs of main in a behaviour
MaxRuns == 2

OutFiles ==
    { NoOut,
      [exists |-> TRUE, parses |-> TRUE, papers |-> <<Seen(M1, FileDay), Seen(K2Old, FileDay)>>],
      [exists |-> TRUE, parses |-> TRUE, papers |-> <<D1, Seen(M1, FileDay)>>],
      [exists |-> TRUE, parses |-> FALSE, papers |-> <<Seen(M1, FileDay), Seen(K2Old, FileDay)>>] }

\* What the searches of a run return: distinct paper_id, first_seen None
Batches == { <<>>, <<K2, M1>>, <<K2, K3, D2>>, <<M3, D1>> }

\* The script before a run
MainIdle ==
    [pc |-> "start", existing |-> <<>>, new_papers |-> <<>>, merged |-> <<>>,
     added |-> 0, updated |-> 0, today |-> NullInt, runs |-> 0,
     has_prev |-> FALSE, prev_batch |-> <<>>, prev_merged |-> <<>>,
     prev_today |-> NullInt, read |-> NoOut]

CorpusFrame == UNCHANGED <<papers, file, ret, stage, args, queue, idx, run>>

InitCorpus ==
    /\ papers = <<>>
    /\ file = NoFile
    /\ now = FirstDay
    /\ ret = None
    /\ stage = "idle"
    /\ args = NoArgs
    /\ queue = <<>>
    /\ idx = 0
    /\ log = NoCall
    /\ kw = MainIdle
    /\ out \in OutFiles
    /\ run = NoRun

\* "existing = load_existing_papers(args.output)"
MainLoad ==
    /\ kw.pc = "start"
    /\ kw.runs < MaxRuns
    /\ kw' = [kw EXCEPT !.pc = "loaded", !.existing = load_existing_papers(out),
                        !.new_papers = <<>>, !.merged = <<>>, !.added = 0,
                        !.updated = 0, !.today = NullInt, !.read = out]
    /\ log' = [op |-> "load_existing_papers",
               warning |-> out.exists /\ ~out.parses]
    /\ UNCHANGED <<now, out>>
    /\ CorpusFrame

\* "new_papers = fetch_papers_by_keywords(...)" or fetch_all_papers(...)
MainFetch(batch) ==
    /\ kw.pc = "loaded"
    /\ kw' = [kw EXCEPT !.pc = "fetched", !.new_papers = batch]
    /\ log' = [op |-> "fetch"]
    /\ UNCHANGED <<now, out>>
    /\ CorpusFrame

\* "new_papers = deduplicate_papers(new_papers)"
MainDedup ==
    /\ kw.pc = "fetched"
    /\ kw' = [kw EXCEPT !.pc = "deduped", !.new_papers = deduplicate_papers(kw.new_papers)]
    /\ log' = [op |-> "deduplicate_papers"]
    /\ UNCHANGED <<now, out>>
    /\ CorpusFrame

\* "papers = merge_papers(existing, new_papers)"
MainMerge ==
    /\ kw.pc = "deduped"
    /\ LET result == merge_papers(kw.existing, kw.new_papers, now)
       IN  kw' = [kw EXCEPT !.pc = "merged", !.merged = result.papers,
                            !.added = result.added, !.updated = result.updated,
                            !.today = now]
    /\ log' = [op |-> "merge_papers"]
    /\ UNCHANGED <<now, out>>
    /\ CorpusFrame

\* "papers.sort(...)" and "json.dump(data, f, indent=2)": the end of the run
MainWrite ==
    /\ kw.pc = "merged"
    /\ out' = [exists |-> TRUE, parses |-> TRUE, papers |-> list_sort(kw.merged, 1, <<>>)]
    /\ kw' = [kw EXCEPT !.pc = "start", !.runs = kw.runs + 1, !.has_prev = TRUE,
                        !.prev_batch = kw.new_papers, !.prev_merged = kw.merged,
                        !.prev_today = kw.today]
    /\ log' = [op |-> "write"]
    /\ UNCHANGED now
    /\ CorpusFrame

\* Midnight
NextDay ==
    /\ now < MaxDay
    /\ now' = now + 1
    /\ log' = [op |-> "midnight"]
    /\ UNCHANGED <<kw, out>>
    /\ CorpusFrame

NextCorpus ==
    \/ MainLoad
    \/ \E batch \in Batches : MainFetch(batch)
    \/ MainDedup
    \/ MainMerge
    \/ MainWrite
    \/ NextDay

SpecCorpus == InitCorpus /\ [][NextCorpus]_vars

----------------------------------------------------------------------------
(* SpecCrawl: run.py runs the stages over a finite citation graph with     *)
(* cycles. Every stage runs to its end; a request is answered from the     *)
(* graph or with HTTP 429; the classifier keeps or discards a record. run  *)
(* is the list of steps run.py has left; kw is what the last steps did to  *)
(* the store file.                                                         *)

NodeA == <<"", "a">>
NodeB == <<"", "b">>
NodeC == <<"", "c">>
NodeD == <<"", "d">>
NodeE == <<"", "e">>
NodeSeed == <<SeedPrefix, "h0">>

\* The stub of the bibliographic service for a paper: B comes without abstract
StubOf(id) ==
    [paperId |-> id, title |-> id[2], abstract |-> IF id = NodeB THEN None ELSE "abs",
     year |-> 2020, url |-> None]

\* The papers citing a paper: A and B cite each other, C cites A and B, D cites
\* C and E
CitationsOf(id) ==
    CASE id = NodeA -> <<StubOf(NodeB), StubOf(NodeC)>>
      [] id = NodeB -> <<StubOf(NodeA), StubOf(NodeC)>>
      [] id = NodeC -> <<StubOf(NodeD)>>
      [] id = NodeE -> <<StubOf(NodeD)>>
      [] OTHER -> <<>>

\* The papers a paper cites
ReferencesOf(id) ==
    CASE id = NodeA -> <<StubOf(NodeB)>>
      [] id = NodeB -> <<StubOf(NodeA)>>
      [] id = NodeC -> <<StubOf(NodeA), StubOf(NodeB)>>
      [] id = NodeD -> <<StubOf(NodeC), StubOf(NodeE)>>
      [] OTHER -> <<>>

\* The depth run.py passes to expand: "--max-depth=2"
RunMaxDepth == 2

\* The steps of one invocation of run.py: the stages of "all" that crawl, or
\* expand alone
StepLists == { <<"fetch", "classify", "expand">>, <<"expand">> }

\* The store file the crawl starts from: the seeds A and E, A found with its
\* abstract and E classified, and a seed that has no bibliographic-service
\* id, classified
CrawlSeeds ==
    set_classified(
        set_classified(
            add_paper(
                add_paper(
                    add_paper(<<>>, NodeA, "a", "seed", NoneId, "abs", 2020, None, 0, 0),
                    NodeSeed, "h0", "seed", NoneId, None, 2020, None, 0, 0),
                NodeE, "e", "seed", NoneId, "abs", 2020, None, 0, 0),
            NodeSeed, "ML01", "LOW", 0),
        NodeE, "ML01", "HIGH", 0)

\* The ids of the records of a store with status expanded
ExpandedIds(ps) == {ps[k].paper_id : k \in {j \in 1..Len(ps) : ps[j].status = "expanded"}}

\* No step has run yet
CrawlIdle ==
    [pc |-> "crawl", size |-> 0, quiet |-> FALSE, last |-> "none",
     before |-> {}, expanded |-> {}]

CrawlFrame == UNCHANGED <<papers, file, now, ret, stage, args, queue, idx, out>>

InitCrawl ==
    /\ papers = <<>>
    /\ file = save(CrawlSeeds)
    /\ now = 1
    /\ ret = None
    /\ stage = "idle"
    /\ args = NoArgs
    /\ queue = <<>>
    /\ idx = 0
    /\ log = NoCall
    /\ kw = CrawlIdle
    /\ out = NoOut
    /\ run = NoRun

\* run.py is started with the steps given
RunStart(steps) ==
    /\ stage = "idle"
    /\ run = NoRun
    /\ run' = steps
    /\ kw' = [kw EXCEPT !.size = Len(file.papers), !.before = ExpandedIds(file.papers)]
    /\ log' = [op |-> "run"]
    /\ CrawlFrame

\* "success = run_step(...)" has returned: the next step, or the end of run.py
RunStepDone ==
    /\ stage = "idle"
    /\ run # NoRun
    /\ log.op \in {"finished", "nothing_to_do"}
    /\ run' = Tail(run)
    /\ kw' = [kw EXCEPT !.last = Head(run),
                        !.before = ExpandedIds(file.papers),
                        !.expanded = IF Head(run) = "expand"
                                     THEN ExpandedIds(file.papers) \ kw.before
                                     ELSE {},
                        !.quiet = IF Tail(run) = NoRun
                                  THEN Len(file.papers) = kw.size
                                  ELSE kw.quiet]
    /\ log' = [op |-> "step_done"]
    /\ CrawlFrame

\* run_step(name) starts the stage
RunStep(name) ==
    /\ run # NoRun
    /\ Head(run) = name
    /\ log.op \in {"run", "step_done"}

\* The request of fetch for the record, answered by the service or with 429
CrawlFetchStep ==
    /\ Running("fetch")
    /\ \E reply \in {Reply429, ReplyOk(StubOf(queue[idx + 1]))} :
          FetchStep(Reply404, reply, Reply404)

\* The two requests of expand for the record, answered from the graph or with 429
CrawlExpandStep ==
    /\ Running("expand")
    /\ LET s2_id == s2_id_of(GetPaper(papers, queue[idx + 1]))
       IN  \E reply \in {Reply429, ReplyOk(CitationsOf(s2_id))} :
              ExpandStep(reply, ReplyOk(ReferencesOf(s2_id)))

NextCrawl ==
    \/ \E steps \in StepLists : RunStart(steps)
    \/ RunStepDone
    \/ RunStep("fetch") /\ FetchStart(0)
    \/ CrawlFetchStep
    \/ RunStep("classify") /\ ClassifyStart(0, FALSE)
    \/ \E c \in Categories : ClassifyOk(c)
    \/ ClassifyFailed(Reply429)
    \/ RunStep("expand") /\ ExpandStart(0, RunMaxDepth)
    \/ CrawlExpandStep
    \/ StageFinish

SpecCrawl == InitCrawl /\ [][NextCrawl]_vars

\* run.py is started again and again, and a process that can take a step
\* takes one
FairCrawl == SpecCrawl /\ WF_vars(NextCrawl)

----------------------------------------------------------------------------
(* SpecQuery: stats and the queries of PaperState applied once to a store  *)
(* that Store calls have built. The store, the store file (none, or a save *)
(* made when the store held one record) and the clock are drawn in the     *)
(* initial state; log holds the call and what it returned.                 *)

QueryLabels == {<<"ML01", "HIGH">>, <<"NONE", "HIGH">>}

\* The stores that hold the one record id, after add_paper and then any of
\* set_classified, set_expanded and set_citations_checked
AddedStores(id) ==
    {add_paper(<<>>, id, "t1", "seed", NoneId, a, NullInt, None, 0, 0) : a \in {None, "abs"}}

LabelledStores(id) ==
    AddedStores(id)
        \cup {set_classified(ps, id, l[1], l[2], 1) : ps \in AddedStores(id), l \in QueryLabels}

ExpandedStores(id) ==
    LabelledStores(id)
        \cup {set_expanded(ps, id, 2) : ps \in {x \in LabelledStores(id) : x[1].status = "classified"}}

CheckedStores(id) ==
    ExpandedStores(id)
        \cup {set_citations_checked(ps, id, t) : ps \in ExpandedStores(id), t \in {2, 3}}

\* The stores of SpecQuery: no record, one record, or two
QueryStores ==
    {<<>>} \cup CheckedStores(<<"", "s1">>)
        \cup {x \o y : x \in CheckedStores(<<"", "s1">>), y \in CheckedStores(<<SeedPrefix, "h0">>)}

QueryFrame == UNCHANGED <<papers, file, now, ret, stage, args, queue, idx, kw, out, run>>

InitQuery ==
    /\ papers \in QueryStores
    /\ file \in {NoFile} \cup {save(ps) : ps \in AddedStores(<<"", "s1">>)}
    /\ now \in {4, 5}
    /\ ret = None
    /\ stage = "idle"
    /\ args = NoArgs
    /\ queue = <<>>
    /\ idx = 0
    /\ log = NoCall
    /\ kw = IdleKw
    /\ out = NoOut
    /\ run = NoRun

\* state.stats()
QueryStats ==
    /\ log = NoCall
    /\ log' = [op |-> "stats", stats |-> stats(papers, now)]
    /\ QueryFrame

\* state.get_papers_for_discovery(days_since_check)
QueryForDiscovery(days_since_check) ==
    /\ log = NoCall
    /\ log' = [op |-> "get_papers_for_discovery", days_since_check |-> days_since_check,
               result |-> get_papers_for_discovery(papers, days_since_check, now)]
    /\ QueryFrame

\* state.get_classified_papers(category)
QueryClassified(category) ==
    /\ log = NoCall
    /\ log' = [op |-> "get_classified_papers", category |-> category,
               result |-> get_classified_papers(papers, category)]
    /\ QueryFrame

NextQuery ==
    \/ QueryStats
    \/ \E d \in {1, 2} : QueryForDiscovery(d)
    \/ \E c \in {None, "ML01", "ML05"} : QueryClassified(c)

SpecQuery == InitQuery /\ [][NextQuery]_vars

----------------------------------------------------------------------------
(* SpecRun: run.py and the stage processes it starts. A stage process is   *)
(* what run.py sees of it: it is started, saves the store file any number  *)
(* of times, and exits with a return code. run is the list of steps the    *)
(* loop has left; kw is run.py: its steps, the processes alive, the steps  *)
(* started and the return values of run_step.                              *)

\* "steps = ["init", "fetch", "classify", "expand", "export"]"
AllSteps == <<"init", "fetch", "classify", "expand", "export">>

\* The steps the "if step == ..." chain of main knows
KnownSteps == {"init", "fetch", "classify", "expand", "discover", "export"}

\* The positional arguments of run.py
StepArgs ==
    { <<"all">>, <<"fetch", "classify">>, <<"expand", "all">>, <<"bogus", "export">>,
      <<"discover", "discover">> }

\* "if "all" in steps: steps = [...]"
steps_of(given) ==
    IF \E k \in 1..Len(given) : given[k] = "all" THEN AllSteps ELSE given

\* the end of the loop body with "sys.exit(1)" in place of the comment
after_step_exit(success, rest) == IF success THEN rest ELSE <<>>

\* "if not success: print(...)  # Continue anyway for now": the steps left
after_step(success, rest) == rest

RunIdle ==
    [pc |-> "off", steps |-> <<>>, alive |-> {}, started |-> <<>>, done |-> <<>>,
     writes |-> 0]

RunFrame == UNCHANGED <<papers, file, now, ret, stage, args, queue, idx, out>>

InitRunner ==
    /\ papers = <<>>
    /\ file = NoFile
    /\ now = 0
    /\ ret = None
    /\ stage = "idle"
    /\ args = NoArgs
    /\ queue = <<>>
    /\ idx = 0
    /\ log = NoCall
    /\ kw = RunIdle
    /\ out = NoOut
    /\ run = NoRun

\* main of run.py up to the loop
RunMain(given) ==
    /\ kw.pc = "off"
    /\ kw' = [RunIdle EXCEPT !.pc = "loop", !.steps = steps_of(given)]
    /\ run' = steps_of(given)
    /\ log' = [op |-> "main", steps |-> given]
    /\ RunFrame

\* "print(f"Unknown step: {step}"); continue"
RunUnknownStep ==
    /\ kw.pc = "loop"
    /\ run # NoRun
    /\ Head(run) \notin KnownSteps
    /\ run' = Tail(run)
    /\ log' = [op |-> "unknown_step", step |-> Head(run)]
    /\ UNCHANGED kw
    /\ RunFrame

\* run_step: "result = subprocess.run(cmd, env=env)" starts the process and
\* waits for it
RunSubprocess ==
    /\ kw.pc = "loop"
    /\ run # NoRun
    /\ Head(run) \in KnownSteps
    /\ kw' = [kw EXCEPT !.pc = "waiting", !.alive = @ \cup {Len(kw.started) + 1},
                        !.started = Append(@, Head(run)), !.writes = 0]
    /\ log' = [op |-> "run_step", step |-> Head(run)]
    /\ UNCHANGED run
    /\ RunFrame

\* A stage process saves the store file: a checkpoint, or its final save
ProcessSaves(proc) ==
    /\ proc \in kw.alive
    /\ kw.writes < 2
    /\ kw' = [kw EXCEPT !.writes = @ + 1]
    /\ log' = [op |-> "save", step |-> kw.started[proc], writers |-> kw.alive]
    /\ UNCHANGED run
    /\ RunFrame

\* The stage process exits; "return result.returncode == 0" and the end of
\* the loop body
ProcessExits(proc, returncode) ==
    /\ proc \in kw.alive
    /\ kw.pc = "waiting"
    /\ kw' = [kw EXCEPT !.pc = "loop", !.alive = @ \ {proc},
                        !.done = Append(@, returncode = 0)]
    /\ run' = after_step(returncode = 0, Tail(run))
    /\ log' = [op |-> "exit", step |-> kw.started[proc], returncode |-> returncode]
    /\ RunFrame

\* "Pipeline complete!"
RunComplete ==
    /\ kw.pc = "loop"
    /\ run = NoRun
    /\ kw' = [kw EXCEPT !.pc = "complete"]
    /\ log' = [op |-> "complete"]
    /\ UNCHANGED run
    /\ RunFrame

NextRun ==
    \/ \E given \in StepArgs : RunMain(given)
    \/ RunUnknownStep
    \/ RunSubprocess
    \/ \E proc \in kw.alive : ProcessSaves(proc)
    \/ \E proc \in kw.alive, returncode \in {0, 1} : ProcessExits(proc, returncode)
    \/ RunComplete

SpecRun == InitRunner /\ [][NextRun]_vars

----------------------------------------------------------------------------
(* Claims about the status machine and add_paper (SpecStore) *)

\* pending < fetched < classified < {expanded, discarded}
StatusRank(s) ==
    CASE s = "pending" -> 0
      [] s = "fetched" -> 1
      [] s = "classified" -> 2
      [] s = "expanded" -> 3
      [] s = "discarded" -> 3

StatusOf(ps, id) == GetPaper(ps, id).status

\* C1: under any sequence of Store calls a record's status never moves to an
\* earlier state in the order pending < fetched < classified < {expanded,
\* discarded}.
C1_StatusNeverRegresses ==
    [][\A id \in Ids(papers) :
         StatusRank(StatusOf(papers', id)) >= StatusRank(StatusOf(papers, id))]_vars

\* C2: add_paper with a paper_id already in the store returns False and leaves
\* the store unchanged: every record keeps every field and none is added.
C2_DuplicateAddIsNoOp ==
    [][(log'.op = "add_paper" /\ HasPaper(papers, log'.paper_id))
         => (ret' = "False" /\ papers' = papers)]_vars

\* C2 witness: a duplicate add_paper was refused although its arguments
\* differ from the stored record's fields.
C2_Witness ==
    /\ log.op = "add_paper"
    /\ ret = "False"
    /\ HasPaper(papers, log.paper_id)
    /\ GetPaper(papers, log.paper_id).abstract # log.abstract
    /\ GetPaper(papers, log.paper_id).source # log.source
    /\ GetPaper(papers, log.paper_id).added_at < now - 1

\* C4: a discarded record stays discarded under every later Store call, and a
\* record becomes discarded only through set_classified with category NONE.
C4_DiscardedIsTerminal ==
    [][\A id \in Ids(papers) :
         /\ StatusOf(papers, id) = "discarded" => StatusOf(papers', id) = "discarded"
         /\ (StatusOf(papers, id) # "discarded" /\ StatusOf(papers', id) = "discarded")
               => (log'.op = "set_classified" /\ log'.paper_id = id
                   /\ log'.category = "NONE")]_vars

----------------------------------------------------------------------------
(* Claims about the stages (Spec) *)

UniqueIds(ps) == \A j, k \in 1..Len(ps) : ps[j].paper_id = ps[k].paper_id => j = k

\* The step deletes no paper_id: not from the store file, and not from the
\* store of a process that keeps running.
KeepsIds ==
    /\ Ids(file.papers) \subseteq Ids(file'.papers)
    /\ (stage # "idle" /\ stage' = stage) => Ids(papers) \subseteq Ids(papers')

Found(l) == l.citations \o l.references
FoundIds(l) == {Found(l)[k].paperId : k \in 1..Len(Found(l))} \ {NoneId}
\* The position of the first stub with this paperId
FirstAt(l, id) ==
    CHOOSE k \in 1..Len(Found(l)) :
        /\ Found(l)[k].paperId = id
        /\ \A j \in 1..(k - 1) : Found(l)[j].paperId # id

\* C5: an expand step adds no id that is in the store; an id repeated in one
\* response, or present in both lists, is added once, with the content of its
\* first occurrence; the records that existed keep every field (the expanded
\* record all but its status and expanded_at).
C5_ExpandAddsOnce ==
    [][log'.op = "expand" =>
         /\ Ids(papers') = Ids(papers) \cup FoundIds(log')
         /\ Len(papers') = Len(papers) + Cardinality(FoundIds(log') \ Ids(papers))
         /\ \A k \in 1..Len(papers) :
               IF papers[k].paper_id = log'.paper_id
               THEN \A f \in DOMAIN papers[k] \ {"status", "expanded_at"} :
                       papers'[k][f] = papers[k][f]
               ELSE papers'[k] = papers[k]
         /\ \A id \in FoundIds(log') \ Ids(papers) :
               LET first == Found(log')[FirstAt(log', id)]
                   r == GetPaper(papers', id)
               IN  /\ r.title = first.title
                   /\ r.abstract = first.abstract
                   /\ r.year = first.year
                   /\ r.source = IF FirstAt(log', id) <= Len(log'.citations)
                                 THEN "citation" ELSE "reference"]_vars

\* C5 witness: an expand step whose citations repeat a paperId with two
\* titles, whose references hold a cited id again, and one of whose ids was in
\* the store before the step.
C5_Witness ==
    /\ log.op = "expand"
    /\ \E j, k \in 1..Len(log.citations) :
          /\ j < k
          /\ log.citations[j].paperId = log.citations[k].paperId
          /\ log.citations[j].title # log.citations[k].title
    /\ \E j \in 1..Len(log.citations), k \in 1..Len(log.references) :
          log.citations[j].paperId = log.references[k].paperId
    /\ \E id \in FoundIds(log) : GetPaper(papers, id).added_at < now - 1

\* What C6 says of the records an expand step adds, but for their status
ExpandedInto(ps, ps2, l) ==
    /\ StatusOf(ps, l.paper_id) = "classified"
    /\ StatusOf(ps2, l.paper_id) = "expanded"
    /\ \A id \in FoundIds(l) \ Ids(ps) :
          /\ HasPaper(ps2, id)
          /\ GetPaper(ps2, id).depth = l.depth + 1
          /\ GetPaper(ps2, id).source \in {"citation", "reference"}
          /\ GetPaper(ps2, id).source_paper_id = l.paper_id

C7_MaxDepth ==
    [][/\ stage' = "expand" =>
            \A k \in 1..Len(queue') : GetPaper(papers', queue'[k]).depth < args'.max_depth
       /\ log'.op = "expand" =>
            /\ log'.depth < args.max_depth
            /\ \A id \in Ids(papers') \ Ids(papers) :
                  GetPaper(papers', id).depth <= args.max_depth]_vars

\* C7 witness: a run with --max-depth 1 started while the store held a
\* classified record of depth 1, which it left out.
C7_Witness ==
    /\ stage = "expand"
    /\ args.max_depth = 1
    /\ Len(queue) > 0
    /\ \E k \in 1..Len(papers) :
          /\ papers[k].status = "classified"
          /\ papers[k].depth = 1
          /\ \A j \in 1..Len(queue) : queue[j] # papers[k].paper_id

----------------------------------------------------------------------------
(* Claims about the checkpoints of expand (SpecCkpt) *)

\* The records the running expand has expanded and not written to the file
Unsaved ==
    {k \in 1..Len(papers) :
        /\ papers[k].status = "expanded"
        /\ ~ (HasPaper(file.papers, papers[k].paper_id)
              /\ StatusOf(file.papers, papers[k].paper_id) = "expanded")}

\* C8: during a run of expand, at every moment at most 10 expanded records
\* are not yet in the store file.
C8_AtMostTenUnsaved ==
    stage = "expand" => Cardinality(Unsaved) <= ExpandCheckpoint

----------------------------------------------------------------------------
(* Claims about the keyword searches (SpecSearch) *)

\* C9: a request answered with HTTP 429 is never dropped: the caller issues
\* the same request again (or leaves the item to be retried); no call site
\* takes the 429 for an empty result.
C9_RateLimitNeverDropped ==
    [][(log'.op = "search" /\ log'.reply = "429") =>
         /\ kw'.pc = "running"
         /\ kw'.k = kw.k
         /\ kw'.offset = kw.offset
         /\ kw'.papers = kw.papers
         /\ kw'.results = kw.results]_vars

\* C10: an HTTP error other than 429 and 404, or a transport failure, on one
\* keyword search skips that keyword only: the loop goes on with the next
\* keyword and the batch is not aborted.
C10_ErrorSkipsOneItem ==
    [][(log'.op = "search" /\ log'.reply = "error") =>
         /\ kw'.pc = "running"
         /\ kw'.k = kw.k + 1]_vars

----------------------------------------------------------------------------
(* Claims about title similarity and deduplication (SpecDedup) *)

\* The three rules for normalized titles a and b: identical; one a prefix of
\* the other and the shorter of at least 20 characters; both word sets of at
\* least 4 words and overlapping by at least 0.80
SameTitle(a, b) == a = b
PrefixRule(a, b) ==
    \/ startswith(a, b) /\ Len(b) >= 20
    \/ startswith(b, a) /\ Len(a) >= 20
WordsOf(a) == split_set(a, 1, "")
JaccardRule(a, b) ==
    /\ Cardinality(WordsOf(a)) >= 4
    /\ Cardinality(WordsOf(b)) >= 4
    /\ 100 * Cardinality(WordsOf(a) \cap WordsOf(b))
          >= 80 * Cardinality(WordsOf(a) \cup WordsOf(b))

\* C15: titles_are_similar on two normalized titles is true exactly when they
\* are identical, or one is a prefix of the other and the shorter has at
\* least 20 characters, or both word sets have at least 4 words and their
\* Jaccard similarity is at least 0.80.
C15_SimilarIffRule ==
    kw.pc = "compared" =>
        LET a == normalize_title(kw.t1)
            b == normalize_title(kw.t2)
        IN  kw.similar <=> (SameTitle(a, b) \/ PrefixRule(a, b) \/ JaccardRule(a, b))

\* C15 witness: two different titles of three words each, with the same word
\* set, were compared and judged not similar.
C15_Witness ==
    /\ kw.pc = "compared"
    /\ ~kw.similar
    /\ normalize_title(kw.t1) # normalize_title(kw.t2)
    /\ WordsOf(normalize_title(kw.t1)) = WordsOf(normalize_title(kw.t2))
    /\ Cardinality(WordsOf(normalize_title(kw.t1))) = 3

\* The list holds the papers titled "Knockoff Nets" and "Knockoff Nets:
\* Stealing Functionality", in either order
KnockoffPair == kw.papers \in {<<K1, K2>>, <<K2, K1>>}

\* C16 (as stated): deduplication puts "Knockoff Nets" and "Knockoff Nets:
\* Stealing Functionality" into one group and keeps one of the two records.
C16_KnockoffNetsGrouped ==
    (kw.pc = "deduped" /\ KnockoffPair) =>
        (Len(kw.groups) = 1 /\ Len(kw.deduped) = 1)

\* C16 (amended): the two are kept as two records, each a group of its own
\* (normalized, "knockoff nets" has 13 characters and 2 words); "Knockoff
\* Nets: Stealing Functionality" and "Knockoff Nets: Stealing Functionality
\* of Black-Box Models" are one group, a prefix pair, and one record is kept.
C16_KnockoffNetsKeptApart ==
    /\ (kw.pc = "deduped" /\ KnockoffPair) =>
          (Len(kw.groups) = 2 /\ kw.deduped = kw.papers)
    /\ (kw.pc = "deduped" /\ kw.papers \in {<<K2, K3>>, <<K3, K2>>}) =>
          (kw.groups = << <<1, 2>> >> /\ kw.deduped = <<K2>>)

\* C16 witness: the list of the two papers has been deduplicated.
C16_Witness ==
    /\ kw.pc = "deduped"
    /\ kw.papers = <<K1, K2>>
    /\ Len(normalize_title(K1.title)) = 13

\* Records i and j of the deduplicated list have similar titles
SimilarAt(i, j) ==
    titles_are_similar(normalize_title(kw.papers[i].title),
                       normalize_title(kw.papers[j].title))

\* The indices in the groups before group g
GroupedBefore(g) ==
    UNION {{kw.groups[h][k] : k \in 1..Len(kw.groups[h])} : h \in 1..(g - 1)}

GroupMembers(g) == {kw.groups[g][k] : k \in 1..Len(kw.groups[g])}

\* C17: each record not yet in a group seeds the next group, a later record
\* not yet in a group joins it exactly when its title is similar to the
\* seed's; every record is in exactly one group and the output has one record
\* of each group.
C17_GroupsBySeed ==
    kw.pc = "deduped" =>
        /\ \A i \in 1..Len(kw.papers) :
              Cardinality({pos \in {<<g, k>> : g \in 1..Len(kw.groups), k \in 1..Len(kw.papers)} :
                              /\ pos[2] <= Len(kw.groups[pos[1]])
                              /\ kw.groups[pos[1]][pos[2]] = i}) = 1
        /\ \A g \in 1..Len(kw.groups) :
              LET seed == kw.groups[g][1]
                  free == (1..Len(kw.papers)) \ GroupedBefore(g)
              IN  /\ seed \in free
                  /\ \A j \in free : seed <= j
                  /\ GroupMembers(g) = {seed} \cup {j \in free : j > seed /\ SimilarAt(seed, j)}
        /\ Len(kw.deduped) = Len(kw.groups)
        /\ \A g \in 1..Len(kw.groups) :
              \E i \in GroupMembers(g) : kw.deduped[g] = kw.papers[i]

\* C17 witness: a group holds two records whose titles are not similar to
\* each other, both similar to the seed's.
C17_Witness ==
    /\ kw.pc = "deduped"
    /\ \E g \in 1..Len(kw.groups) :
          \E i, j \in GroupMembers(g) :
             /\ i # kw.groups[g][1]
             /\ j # kw.groups[g][1]
             /\ ~SimilarAt(i, j)

\* The score of a record: whether it has a non-empty venue, its year (0 when
\* missing), its citation count; and the lexicographic order on scores
HasVenue(p) == p.venue # None /\ p.venue # ""
YearOrZero(p) == IF p.year = NullInt THEN 0 ELSE p.year
ScoreLess(p, q) ==
    \/ ~HasVenue(p) /\ HasVenue(q)
    \/ HasVenue(p) = HasVenue(q) /\ YearOrZero(p) < YearOrZero(q)
    \/ /\ HasVenue(p) = HasVenue(q)
       /\ YearOrZero(p) = YearOrZero(q)
       /\ p.citation_count < q.citation_count

\* C18: in a group of more than one record the record kept is maximal under
\* (has a venue, year, citation count), and the first of the group's maximal
\* records.
C18_KeepsFirstBest ==
    kw.pc = "deduped" =>
        \A g \in 1..Len(kw.groups) :
            Len(kw.groups[g]) > 1 =>
                \E m \in 1..Len(kw.groups[g]) :
                    LET best == kw.papers[kw.groups[g][m]]
                    IN  /\ kw.deduped[g] = best
                        /\ \A k \in 1..Len(kw.groups[g]) :
                              ~ScoreLess(best, kw.papers[kw.groups[g][k]])
                        /\ \A k \in 1..(m - 1) :
                              ScoreLess(kw.papers[kw.groups[g][k]], best)

\* C18 witness: a group holds two different records with the same, maximal
\* score, and one with a lower score that comes before them.
C18_Witness ==
    /\ kw.pc = "deduped"
    /\ \E g \in 1..Len(kw.groups) :
          /\ Len(kw.groups[g]) = 3
          /\ LET a == kw.papers[kw.groups[g][1]]
                 b == kw.papers[kw.groups[g][2]]
                 c == kw.papers[kw.groups[g][3]]
             IN  /\ ScoreLess(a, b)
                 /\ b # c
                 /\ ~ScoreLess(b, c)
                 /\ ~ScoreLess(c, b)
                 /\ kw.deduped[g] = b

----------------------------------------------------------------------------
(* Claims about the corpus file and merge_papers (SpecCorpus) *)

\* The paper_ids of a list of papers
IdsOf(list) == {list[k].paper_id : k \in 1..Len(list)}

\* The records of a list of papers
RecordsOf(list) == {list[k] : k \in 1..Len(list)}

\* The record of paper_id in a list that holds it
RecordOf(list, paper_id) == list[dict_index(list, paper_id)]

\* The run has merged the batch of the run before it into the store that
\* run wrote
MergedAgain ==
    /\ kw.pc = "merged"
    /\ kw.has_prev
    /\ kw.new_papers = kw.prev_batch
    /\ RecordsOf(kw.existing) = RecordsOf(kw.prev_merged)

\* C11: an output file that exists and cannot be parsed is never written:
\* the run that finds it aborts, and what the file held stays in it.
C11_UnreadableFileNotWritten ==
    [][(out.exists /\ ~out.parses) => out' = out]_vars

\* C12: after merge_papers the ids of the result are the ids of the existing
\* corpus and of the batch, each once; an existing record keeps its
\* first_seen, or gets today where it had none, whether or not a record of
\* the batch replaces it; a record of the batch with a new id has today.
C12_MergeNeverRemoves ==
    kw.pc = "merged" =>
        /\ IdsOf(kw.merged) = IdsOf(kw.existing) \cup IdsOf(kw.new_papers)
        /\ Len(kw.merged) = Cardinality(IdsOf(kw.merged))
        /\ \A k \in 1..Len(kw.existing) :
              LET old == kw.existing[k]
                  first_seen == IF old.first_seen # NullInt THEN old.first_seen
                                ELSE kw.today
                  from == IF old.paper_id \in IdsOf(kw.new_papers)
                          THEN RecordOf(kw.new_papers, old.paper_id)
                          ELSE old
              IN  RecordOf(kw.merged, old.paper_id) = [from EXCEPT !.first_seen = first_seen]
        /\ \A k \in 1..Len(kw.new_papers) :
              kw.new_papers[k].paper_id \notin IdsOf(kw.existing) =>
                  RecordOf(kw.merged, kw.new_papers[k].paper_id)
                      = [kw.new_papers[k] EXCEPT !.first_seen = kw.today]

\* A merge that backfills one existing record, replaces another that was
\* first seen on an earlier day, and adds a new one
C12_Witness ==
    /\ kw.pc = "merged"
    /\ \E k \in 1..Len(kw.existing) :
          /\ kw.existing[k].first_seen = NullInt
          /\ kw.existing[k].paper_id \notin IdsOf(kw.new_papers)
    /\ \E k \in 1..Len(kw.existing) :
          /\ kw.existing[k].first_seen # NullInt
          /\ kw.existing[k].first_seen # kw.today
          /\ kw.existing[k].paper_id \in IdsOf(kw.new_papers)
    /\ kw.added > 0

\* C13: merging the batch of the run before into the store that run wrote
\* reports no record added and no record updated.
C13_SecondMergeReportsNothing ==
    MergedAgain => kw.added = 0 /\ kw.updated = 0

\* C14: merging the batch of the run before into the store that run wrote
\* gives the records of that store, first_seen included.
C14_MergeIdempotent ==
    MergedAgain =>
        /\ RecordsOf(kw.merged) = RecordsOf(kw.prev_merged)
        /\ Len(kw.merged) = Len(kw.prev_merged)

\* The batch is merged again on a later day than the first time, into a
\* store that holds a record the first merge added
C14_Witness ==
    /\ MergedAgain
    /\ kw.new_papers # <<>>
    /\ kw.today # kw.prev_today
    /\ \E k \in 1..Len(kw.merged) :
          /\ kw.merged[k].first_seen = kw.prev_today
          /\ kw.merged[k].paper_id \in IdsOf(kw.new_papers)

----------------------------------------------------------------------------
(* Claims about repeated crawl passes (SpecCrawl, FairCrawl) *)

\* The elements of a list are distinct
Distinct(list) == \A j, k \in 1..Len(list) : list[j] = list[k] => j = k

\* The step works on the next record of the list of its pass, once
OneByOne ==
    (stage # "idle" /\ stage' = stage) => (queue' = queue /\ idx' = idx + 1)

\* C19: over the cyclic citation graph, a pass works through the records it
\* selected one by one, each once; no store holds a paper_id twice; no
\* record at depth RunMaxDepth or deeper is expanded; and from some
\* invocation of run.py on, no invocation adds a record to the store file.
C19_CrawlTerminates ==
    /\ [](Distinct(queue) /\ UniqueIds(papers) /\ UniqueIds(file.papers))
    /\ [][OneByOne]_vars
    /\ [][log'.op = "expand" => log'.depth < RunMaxDepth]_vars
    /\ <>[](kw.quiet)

\* The crawl has expanded A, B and C, which cite each other, has reached D at
\* depth RunMaxDepth and classified it, and the last invocation added nothing
C19_Witness ==
    /\ kw.quiet
    /\ stage = "idle"
    /\ {NodeA, NodeB, NodeC} \subseteq ExpandedIds(file.papers)
    /\ HasPaper(file.papers, NodeD)
    /\ GetPaper(file.papers, NodeD).depth = RunMaxDepth
    /\ GetPaper(file.papers, NodeD).status = "classified"

\* The pass of expand that runs, or starts, right after a pass of expand
SecondPass(st, last) == st = "expand" /\ last = "expand"

\* C20: an expand pass that starts right after an expand pass selects no
\* record that pass expanded, sends no request for one and adds no record
\* found through one.
C20_ExpandedNotSelectedAgain ==
    [][/\ (stage = "idle" /\ SecondPass(stage', kw.last)) =>
              \A k \in 1..Len(queue') : queue'[k] \notin kw.expanded
       /\ (SecondPass(stage, kw.last)
             /\ log'.op \in {"expand", "expand_429", "expand_no_s2_id"}) =>
              /\ log'.paper_id \notin kw.expanded
              /\ \A id \in Ids(papers') \ Ids(papers) :
                    GetPaper(papers', id).source_paper_id \notin kw.expanded]_vars

\* An expand pass right after an expand pass that expanded a record has
\* expanded another record and added what it found
C20_Witness ==
    /\ SecondPass(stage, kw.last)
    /\ kw.expanded # {}
    /\ log.op = "expand"
    /\ \E k \in 1..Len(papers) : papers[k].source_paper_id = log.paper_id

----------------------------------------------------------------------------
(* Claims about the depth of a record (SpecCrawl) *)

\* The paper_ids the service names in its answers about a paper
NeighboursOf(id) ==
    {CitationsOf(id)[k].paperId : k \in 1..Len(CitationsOf(id))}
        \cup {ReferencesOf(id)[k].paperId : k \in 1..Len(ReferencesOf(id))}

\* C21: the depth of a record of the store file is the least distance at
\* which its paper_id has been found so far: a record found through an
\* expanded record p is no deeper than p.depth + 1, whichever of the records
\* that name it was expanded first.
C21_DepthIsMinimum ==
    \A j, k \in 1..Len(file.papers) :
        (/\ file.papers[j].status = "expanded"
         /\ file.papers[k].paper_id \in NeighboursOf(file.papers[j].paper_id))
            => file.papers[k].depth <= file.papers[j].depth + 1

----------------------------------------------------------------------------
(* Claims about the store file after a kill (Spec) *)

\* list a is the beginning of list b
IsPrefix(a, b) == Len(a) <= Len(b) /\ a = SubSeq(b, 1, Len(a))

\* C22: a kill, wherever it hits the process, leaves the store file as the
\* last save wrote it, a file that loads; and the stage started next works
\* on the records the file holds in the status the stage asks for (fetch on
\* the pending ones, expand on the classified ones), from the first on.
C22_KillLeavesSnapshot ==
    /\ [][log'.op \in {"killed", "killed_in_save"} => (file' = file /\ file'.valid)]_vars
    /\ [][(log'.op = "start" /\ log'.stage = "fetch") =>
            (queue' # <<>> /\ IsPrefix(queue', PaperIds(get_pending_papers(file.papers))))]_vars
    /\ [][(log'.op = "start" /\ log'.stage = "expand") =>
            \A k \in 1..Len(queue') : StatusOf(file.papers, queue'[k]) = "classified"]_vars

----------------------------------------------------------------------------
(* Claims about the single Store calls (SpecStore) *)

UpdateOps ==
    {"update_paper", "set_fetched", "set_classified", "set_expanded",
     "set_citations_checked"}

SetOps == UpdateOps \ {"update_paper"}

TimeFields == {"fetched_at", "classified_at", "expanded_at", "citations_checked_at"}

\* The store without the timestamps the setters stamp
Timeless(ps) ==
    [k \in 1..Len(ps) |-> [f \in DOMAIN ps[k] \ TimeFields |-> ps[k][f]]]

\* C23: an update call for a paper_id that is not in the store returns, and
\* leaves the store as it was: no record is created, none is changed.
C23_UnknownIdIsNoOp ==
    [][(log'.op \in UpdateOps /\ ~HasPaper(papers, log'.paper_id)) =>
          (papers' = papers /\ ret' = ret)]_vars

\* An update call for an unknown paper_id was made on a store that holds
\* another record
C23_Witness ==
    /\ log.op \in UpdateOps
    /\ ~HasPaper(papers, log.paper_id)
    /\ papers # <<>>

\* C24: a setter called a second time in a row with the same arguments changes
\* nothing but timestamps; set_fetched on a pending record makes it fetched.
C24_SettersIdempotent ==
    [][/\ (log'.op \in SetOps /\ log'.twice) => Timeless(papers') = Timeless(papers)
       /\ (/\ log'.op = "set_fetched"
           /\ HasPaper(papers, log'.paper_id)
           /\ StatusOf(papers, log'.paper_id) = "pending")
             => StatusOf(papers', log'.paper_id) = "fetched"]_vars

\* A setter was called twice in a row with the same arguments on a record of
\* the store
C24_Witness ==
    /\ log.op \in SetOps
    /\ log.twice
    /\ HasPaper(papers, log.paper_id)

\* C25: add_paper with a new paper_id appends one record: fetched when an
\* abstract (a non-empty string) was given and pending otherwise, not
\* classified, and with fetched_at set exactly when it is fetched.
C25_AddPaperInitialStatus ==
    [][(log'.op = "add_paper" /\ ~HasPaper(papers, log'.paper_id)) =>
          /\ Len(papers') = Len(papers) + 1
          /\ SubSeq(papers', 1, Len(papers)) = papers
          /\ LET new == papers'[Len(papers')]
             IN  /\ new.paper_id = log'.paper_id
                 /\ new.status = IF log'.abstract \notin {None, ""} THEN "fetched"
                                 ELSE "pending"
                 /\ new.classification = None
                 /\ new.fetched_at # NullInt <=> new.status = "fetched"]_vars

\* add_paper has added a record with an abstract to a store that holds a
\* record added without one
C25_Witness ==
    /\ log.op = "add_paper"
    /\ ret = "True"
    /\ log.abstract = "abs"
    /\ StatusOf(papers, log.paper_id) = "fetched"
    /\ \E k \in 1..Len(papers) : papers[k].status = "pending" /\ papers[k].abstract = ""

\* C26: set_classified on a record of the store makes it discarded when the
\* category is NONE and classified for any other category, and writes the
\* category and the confidence into the record.
C26_ClassifiedOrDiscarded ==
    [][(log'.op = "set_classified" /\ HasPaper(papers, log'.paper_id)) =>
          LET p == GetPaper(papers', log'.paper_id)
          IN  /\ p.status = IF log'.category = "NONE" THEN "discarded" ELSE "classified"
              /\ p.classification = log'.category
              /\ p.classification_confidence = log'.confidence]_vars

\* A record was classified with LOW confidence in a category other than NONE
C26_Witness ==
    /\ log.op = "set_classified"
    /\ log.category # "NONE"
    /\ log.confidence = "LOW"
    /\ HasPaper(papers, log.paper_id)
    /\ GetPaper(papers, log.paper_id).status = "classified"

\* C27: set_citations_checked changes citations_checked_at of the record
\* named and nothing else: not its status, not another field, not another
\* record.
C27_OnlyCitationsCheckedAt ==
    [][log'.op = "set_citations_checked" =>
          /\ Len(papers') = Len(papers)
          /\ \A k \in 1..Len(papers) :
                /\ DOMAIN papers'[k] = DOMAIN papers[k]
                /\ \A f \in DOMAIN papers[k] :
                      (f = "citations_checked_at" /\ papers[k].paper_id = log'.paper_id)
                         \/ papers'[k][f] = papers[k][f]]_vars

\* set_citations_checked has stamped one of two records of the store
C27_Witness ==
    /\ log.op = "set_citations_checked"
    /\ Len(papers) = 2
    /\ HasPaper(papers, log.paper_id)
    /\ GetPaper(papers, log.paper_id).citations_checked_at # NullInt

----------------------------------------------------------------------------
(* Claims about stats and the queries (SpecQuery) *)

\* The sum of the counts of a histogram
RECURSIVE SumOf(_)
SumOf(counts) ==
    IF DOMAIN counts = {} THEN 0
    ELSE LET x == CHOOSE y \in DOMAIN counts : TRUE
         IN  counts[x] + SumOf([y \in DOMAIN counts \ {x} |-> counts[y]])

\* The positions of the records of the store that satisfy Test
Where(Test(_)) == {k \in 1..Len(papers) : Test(papers[k])}

\* C28: stats() counts the records of the store in memory: total_papers is
\* their number, by_status has one count per status that occurs, the number
\* of records in it, so the counts add up to total_papers, and by_category
\* has one count per category that occurs, of the classified records.
C28_StatsOfMemory ==
    log.op = "stats" =>
        /\ log.stats.total_papers = Len(papers)
        /\ DOMAIN log.stats.by_status = {papers[k].status : k \in 1..Len(papers)}
        /\ \A st \in DOMAIN log.stats.by_status :
              log.stats.by_status[st] = Cardinality(Where(LAMBDA p : p.status = st))
        /\ SumOf(log.stats.by_status) = log.stats.total_papers
        /\ DOMAIN log.stats.by_category
              = {papers[k].classification : k \in 1..Len(papers)} \ {None}
        /\ \A c \in DOMAIN log.stats.by_category :
              log.stats.by_category[c] = Cardinality(Where(LAMBDA p : p.classification = c))
        /\ SumOf(log.stats.by_category)
              = Cardinality(Where(LAMBDA p : p.classification # None))

\* stats() was called on a store of two records, one classified and one not,
\* while the store file holds one pending record
C28_Witness ==
    /\ log.op = "stats"
    /\ Len(papers) = 2
    /\ file.exists
    /\ Len(file.papers) = 1
    /\ file.papers[1].status = "pending"
    /\ \E j, k \in 1..2 : papers[j].classification = None /\ papers[k].status = "classified"

\* The list holds the records of the store at the positions given, in the
\* order of the store
Exactly(result, positions) ==
    /\ Len(result) = Cardinality(positions)
    /\ {result[k] : k \in 1..Len(result)} = {papers[k] : k \in positions}
    /\ \A j, k \in 1..Len(result) :
          j < k => dict_index(papers, result[j].paper_id) < dict_index(papers, result[k].paper_id)

\* C29: get_papers_for_discovery returns the records that are classified or
\* expanded and whose citations were never checked or were checked before
\* now - days_since_check; get_classified_papers returns the records that are
\* classified or expanded, of the category given if one is given.
C29_QueriesFilter ==
    /\ log.op = "get_papers_for_discovery" =>
          Exactly(log.result,
                  Where(LAMBDA p :
                      /\ p.status \in {"classified", "expanded"}
                      /\ (p.citations_checked_at = NullInt
                            \/ p.citations_checked_at < now - log.days_since_check)))
    /\ log.op = "get_classified_papers" =>
          Exactly(log.result,
                  Where(LAMBDA p :
                      /\ p.status \in {"classified", "expanded"}
                      /\ (log.category = None \/ p.classification = log.category)))

\* get_papers_for_discovery has returned a record checked before the cutoff
\* and has left out a record checked at the cutoff
C29_Witness ==
    /\ log.op = "get_papers_for_discovery"
    /\ Len(log.result) = 1
    /\ log.result[1].citations_checked_at # NullInt
    /\ \E k \in 1..Len(papers) :
          /\ papers[k].status \in {"classified", "expanded"}
          /\ papers[k].citations_checked_at = now - log.days_since_check

----------------------------------------------------------------------------
(* Claims about the delay between requests (Spec) *)

Delays == {"sleep", "backoff"}

\* Between two requests of the list to the same service the process sleeps,
\* and it sleeps after the last request
Polite(events) ==
    /\ \A j, k \in 1..Len(events) :
          (j < k /\ events[j] \notin Delays /\ events[j] = events[k]) =>
              \E d \in (j + 1)..(k - 1) : events[d] \in Delays
    /\ (\E k \in 1..Len(events) : events[k] \notin Delays) =>
          events[Len(events)] \in Delays

\* C30: in fetch and in expand the process sleeps between any two requests
\* to the same service: between those for one record, and, sleeping after
\* the last request for a record, before the first for the next.
C30_DelayBetweenRequests ==
    [][log'.op \in {"fetch", "fetch_429", "expand", "expand_429", "expand_no_s2_id"} =>
          Polite(log'.events)]_vars

----------------------------------------------------------------------------
(* Claims about the paged requests of fetch_papers.py *)

\* The items of the pages received, one page after the other
RECURSIVE Concat(_, _)
Concat(pages, k) ==
    IF k > Len(pages) THEN <<>>
    ELSE PageAt(pages[k].offset, pages[k].size) \o Concat(pages, k + 1)

\* The pages received lie one after the other from offset 0 on
Consecutive(pages) ==
    \A k \in 1..Len(pages) :
        pages[k].offset = (IF k = 1 THEN 0 ELSE pages[k - 1].offset + pages[k - 1].size)

\* C31: search_papers and fetch_citations ask for pages of at most 100 items;
\* the pages received lie one after the other from offset 0 on, none skipped
\* and none twice; a request answered with 429 is made again at the same
\* offset; and the result is the items received (those with a paperId, for
\* fetch_citations), at most limit of them.
C31_PagesConcatenated ==
    /\ [](kw.pc \in {"running", "returned"} =>
            /\ Consecutive(kw.got)
            /\ \A k \in 1..Len(kw.got) : kw.got[k].size <= PageMax)
    /\ [](kw.pc = "returned" =>
            /\ kw.limit # NullInt => Len(kw.result) <= kw.limit
            /\ LET items == IF kw.prog = "search_papers" THEN Concat(kw.got, 1)
                            ELSE SelectSeq(Concat(kw.got, 1), HasPaperId)
               IN  kw.result = IF kw.limit = NullInt THEN items ELSE Take(items, kw.limit))
    /\ [][log'.op = "request" =>
            /\ log'.limit <= PageMax
            /\ kw.retry # NullInt => log'.offset = kw.retry]_vars

\* A call with a limit above one page has received a full page and a later
\* one after a 429 on the way, and has returned as many items as its limit
C31_Witness ==
    /\ kw.pc = "returned"
    /\ kw.limit = 250
    /\ kw.retried
    /\ Len(kw.got) >= 3
    /\ kw.got[1].size = PageMax
    /\ Len(kw.result) = kw.limit

----------------------------------------------------------------------------
(* Claims about HTTP 404 on a citations or references request *)

\* A turn of expand whose requests got a 404 and no 429
NotFoundTurn ==
    /\ log'.op \in {"expand", "expand_429"}
    /\ "404" \in {log'.replies[1], log'.replies[2]}
    /\ "429" \notin {log'.replies[1], log'.replies[2]}

\* get_citations and get_references return [] on a 404, and the record is
\* handled like one without citations: it is marked expanded and the loop
\* goes on with the next record
NotFoundInExpand ==
    [][NotFoundTurn =>
          /\ log'.op = "expand"
          /\ log'.replies[1] = "404" => log'.citations = <<>>
          /\ log'.replies[2] = "404" => log'.references = <<>>
          /\ StatusOf(papers', log'.paper_id) = "expanded"
          /\ stage' = "expand"
          /\ idx' = idx + 1]_vars

\* A request of fetch_citations got a 404
NotFoundPage == log'.op = "request" /\ log'.prog = "fetch_citations" /\ log'.reply = "404"

----------------------------------------------------------------------------
(* Claims about records and found papers without an identifier *)

\* The expand stage handles the next record of its list
ExpandTurn == stage = "expand" /\ idx < Len(queue) /\ stage' = "expand" /\ idx' = idx + 1

\* p has no identifier of the bibliographic service
Unresolvable(p) == p.paper_id[1] = SeedPrefix /\ Get(p, "s2_paper_id", NoneId) = NoneId

\* C33: the expand stage skips a record whose id starts with seed_ and that has
\* no s2_paper_id: it makes no request, adds no record and leaves the record,
\* its status included, and the store file as they are. A found paper without
\* paperId is never added to the store.
C33_UnresolvableSkipped ==
    /\ [][ExpandTurn =>
            LET p == GetPaper(papers, queue[idx + 1])
            IN  /\ Unresolvable(p) =>
                      /\ log'.op = "expand_no_s2_id"
                      /\ log'.events = <<>>
                      /\ papers' = papers
                      /\ file' = file
                /\ log'.op = "expand_no_s2_id" => Unresolvable(p)]_vars
    /\ [](\A k \in 1..Len(papers) :
             papers[k].paper_id # NoneId /\ papers[k].title # StubNoId.title)
    /\ [][log'.op = "expand" =>
            /\ Ids(papers') \ Ids(papers) \subseteq FoundIds(log')
            /\ Len(papers') - Len(papers) = Cardinality(FoundIds(log') \ Ids(papers))]_vars

\* The expand stage has skipped a classified seed record, after a step of an
\* earlier run had been answered with a paper without paperId
C33_Witness ==
    /\ log.op = "expand_no_s2_id"
    /\ stage = "expand"
    /\ StatusOf(papers, log.paper_id) = "classified"
    /\ Unresolvable(GetPaper(papers, log.paper_id))

----------------------------------------------------------------------------
(* Claims about run.py (SpecRun) *)

\* The known steps of a list, in its order
KnownOf(steps) == SelectSeq(steps, LAMBDA step : step \in KnownSteps)

\* C34: run.py runs the stages one after another: a stage process is started
\* when none is alive, so at most one process saves the store file at a time;
\* "all" means init, fetch, classify, expand, export, in this order; and a
\* stage that fails does not keep the stages after it from running.
C34_StagesOneByOne ==
    /\ [](Cardinality(kw.alive) <= 1)
    /\ [][log'.op = "run_step" => kw.alive = {}]_vars
    /\ [][log'.op = "save" => log'.writers = {CHOOSE proc \in kw.alive : TRUE}]_vars
    /\ [][log'.op = "main" =>
            IF \E k \in 1..Len(log'.steps) : log'.steps[k] = "all"
            THEN kw'.steps = <<"init", "fetch", "classify", "expand", "export">>
            ELSE kw'.steps = log'.steps]_vars
    /\ [](kw.pc \in {"loop", "waiting", "complete"} =>
            /\ Len(kw.started) <= Len(KnownOf(kw.steps))
            /\ kw.started = SubSeq(KnownOf(kw.steps), 1, Len(kw.started)))
    /\ [](kw.pc = "complete" => kw.started = KnownOf(kw.steps))

\* run.py all has ended: five stages were run in order, the second one failed
C34_Witness ==
    /\ kw.pc = "complete"
    /\ kw.started = <<"init", "fetch", "classify", "expand", "export">>
    /\ kw.done = <<TRUE, FALSE, TRUE, TRUE, TRUE>>

----------------------------------------------------------------------------
(* Claims about rate limiting in the expand stage *)

\* C35: when the citations request or the references request of a record is
\* answered with 429, the expand stage adds no paper for the record, from
\* neither list, and changes no record; the record keeps status classified and
\* is selected by the next run; the loop waits and goes on with the next
\* record.
C35_RateLimitedExpandsNothing ==
    [][(ExpandTurn /\ log'.op \in {"expand", "expand_429"}
          /\ "429" \in {log'.replies[1], log'.replies[2]}) =>
          /\ log'.op = "expand_429"
          /\ papers' = papers
          /\ StatusOf(papers', log'.paper_id) = "classified"
          /\ \E k \in 1..Len(get_papers_to_expand(papers')) :
                get_papers_to_expand(papers')[k].paper_id = log'.paper_id
          /\ log'.events[Len(log'.events)] = "backoff"
          /\ queue' = queue]_vars

\* The citations of a record were answered, its references got a 429, and the
\* record is not the last of the list
C35_Witness ==
    /\ log.op = "expand_429"
    /\ log.replies = <<"ok", "429">>
    /\ stage = "expand"
    /\ idx < Len(queue)
    /\ StatusOf(papers, log.paper_id) = "classified"

----------------------------------------------------------------------------
(* Claims about status and classification *)

\* The status of record p and its classification agree
Labelled(p) ==
    LET classification == Get(p, "classification", None)
    IN  /\ p.status \in {"classified", "expanded"} <=> classification \in Categories \ {"NONE"}
        /\ p.status = "discarded" <=> classification = "NONE"
        /\ p.status \in {"pending", "fetched"} <=> classification = None

\* C36: in every store the stages init, fetch, classify, expand and discover
\* reach from the empty store, in memory and in the file, a record is
\* classified or expanded exactly when its classification is a category other
\* than NONE, discarded exactly when it is NONE, and pending or fetched
\* exactly when it is null.
C36_StatusMatchesClassification ==
    /\ \A k \in 1..Len(papers) : Labelled(papers[k])
    /\ file.valid => \A k \in 1..Len(file.papers) : Labelled(file.papers[k])

\* A saved store with an expanded record, a discarded one and one not yet
\* classified
C36_Witness ==
    /\ file.valid
    /\ \E k \in 1..Len(file.papers) : file.papers[k].status = "expanded"
    /\ \E k \in 1..Len(file.papers) : file.papers[k].status = "discarded"
    /\ \E k \in 1..Len(file.papers) : file.papers[k].status \in {"pending", "fetched"}

----------------------------------------------------------------------------
(* Claims about a second run of init *)

\* The store the init process loaded holds the seeds of an earlier run
SeedsLoaded == \E k \in 1..Len(papers) : papers[k].source = "seed"

\* C37: a run of init on a store that an earlier run of init, in another
\* process, has filled from the same seed list, without --reset, gives every
\* seed the paper_id it has in the store: it adds no record and changes none.
C37_SecondInitAddsNothing ==
    [][(log'.op = "init_done" /\ SeedsLoaded) =>
          /\ log'.added = 0
          /\ file'.papers = papers]_vars

----------------------------------------------------------------------------
(* Claims about the output of deduplicate_papers (SpecDedup) *)

\* The records of list a are records of list b, each at a position of its own
TakenFrom(a, b) ==
    \E at \in [1..Len(a) -> 1..Len(b)] :
        /\ \A g, h \in 1..Len(a) : g # h => at[g] # at[h]
        /\ \A g \in 1..Len(a) : a[g] = b[at[g]]

----------------------------------------------------------------------------
(* Claims about the discovery sweep *)

\* The discover stage handles the next record of its list
DiscoverTurn ==
    stage = "discover" /\ idx < Len(queue) /\ stage' = "discover" /\ idx' = idx + 1

\* The time of the last check of record id in store ps
CheckedAt(ps, id) == Get(GetPaper(ps, id), "citations_checked_at", NullInt)

\* C39: a sweep stamps citations_checked_at of a record of its list exactly
\* when the record has an id of the bibliographic service and its request was
\* not answered with 429; a record that got a 429 or has only a seed_ id is
\* left as it is and a sweep with the same threshold selects it again; a
\* sweep does not select a record stamped no longer ago than its threshold;
\* and a sweep changes the status of no record.
C39_SweepStampsChecked ==
    /\ [][DiscoverTurn =>
            LET id == queue[idx + 1]
                p == GetPaper(papers, id)
                resolvable == ~(s2_id_of(p)[1] = SeedPrefix)
            IN  /\ log'.op = "discover" <=> (resolvable /\ log'.reply # "429")
                /\ log'.op = "discover" =>
                      CheckedAt(papers', id) = now /\ CheckedAt(papers, id) # now
                /\ log'.op # "discover" =>
                      /\ log'.op \in {"discover_429", "discover_no_s2_id"}
                      /\ papers' = papers
                      /\ \E j \in 1..Len(get_papers_for_discovery(papers', args.days, now')) :
                            get_papers_for_discovery(papers', args.days, now')[j].paper_id = id
                /\ Len(papers') >= Len(papers)
                /\ \A k \in 1..Len(papers) : papers'[k].status = papers[k].status]_vars
    /\ [][(log'.op = "start" /\ log'.stage = "discover") =>
            \A k \in 1..Len(papers') :
                LET at == Get(papers'[k], "citations_checked_at", NullInt)
                IN  (at # NullInt /\ now - at <= args'.days) =>
                        \A j \in 1..Len(queue') : queue'[j] # papers'[k].paper_id]_vars

\* A second sweep starts: it leaves out the record the first sweep stamped and
\* takes the record with a seed_ id again
C39_Witness ==
    /\ log.op = "start"
    /\ log.stage = "discover"
    /\ args.days = 2
    /\ \E k \in 1..Len(papers) :
          /\ papers[k].citations_checked_at # NullInt
          /\ papers[k].status \in {"classified", "expanded"}
          /\ \A j \in 1..Len(queue) : queue[j] # papers[k].paper_id
    /\ \E j \in 1..Len(queue) : queue[j][1] = SeedPrefix

----------------------------------------------------------------------------
(* Claims about the fetch stage *)

\* The fetch stage handles the next record of its list
FetchTurn == stage = "fetch" /\ idx < Len(queue) /\ stage' = "fetch" /\ idx' = idx + 1

\* One of the lookups came back with `got`
SomeLookup(lookups, got) == \E k \in 1..Len(lookups) : lookups[k].got = got

====
